---- MODULE Spec2Model ----
(***************************************************************************)
(* A model of pb_discord.bot.Bot (src/pb_discord/bot.py): the guild        *)
(* availability gate, the extension loader and command-tree sync tasks,    *)
(* process_commands, close(), and the root-alias command registry.         *)
(*                                                                         *)
(* The bot runs on one asyncio event loop.  A step of the model is what a  *)
(* task executes between two suspensions: code that does not suspend is    *)
(* part of the same step.  asyncio.Event.wait() returns at once when the   *)
(* event is set; otherwise the caller is suspended, Event.set() resolves   *)
(* its future ("woken") and the caller resumes in a later step without     *)
(* looking at the event again.  The loop runs ready callbacks in the order *)
(* they were queued: the sync task, which continues once the loading task  *)
(* has ended, does so after the first run of the load_extension tasks that *)
(* the loading task created before it ended.                               *)
(***************************************************************************)
EXTENDS Integers, Sequences, FiniteSets, TLC

(***************************************************************************)
(* Bounds of the model.                                                    *)
(***************************************************************************)
\* concurrent callers of wait_until_guild_available(key) besides the loader
MaxWaiters == 2

\* the most h's put after the prefix of an invoked name
MaxH == 8

\* error_handler.py line 179: the cap of the silence duration
MaxDuration == 15

(***************************************************************************)
(* Guilds.  Bot.guild_id and Bot.public_guild_id are the two configured    *)
(* ids (constants.Guild.id, constants.Guild.public); other_guild_id stands *)
(* for any other guild the gateway reports.                                *)
(***************************************************************************)
guild_id == "private_guild"
public_guild_id == "public_guild"
other_guild_id == "other_guild"
GuildIds == {guild_id, public_guild_id, other_guild_id}

\* a discord.Guild as the handlers read it: its id, and of each of its caches
\* (lists) whether it holds something, which is all that `not guild.roles` reads
Cache == {"empty", "nonempty"}
Guilds == [id : GuildIds, roles : Cache, members : Cache, channels : Cache]

\* the key argument of wait_until_guild_available; "" stands for None (falsy)
Keys == {"", "private", "public", "other"}

\* the plugin modules under pb_discord.exts that walk_extensions discovers
Exts == {"backend.config_verifier", "backend.error_handler", "info.accounts"}

\* the cog that an extension's setup() adds (ConfigVerifier, ErrorHandler, Accounts)
CogOf(ext) == <<"cog", ext>>

(***************************************************************************)
(* The commands of the registry model.  A command is an object: the keys   *)
(* of Command are the objects, its values what the registry reads of them: *)
(* name, aliases, root_aliases (the attribute the monkey patch adds) and,  *)
(* of a Group, commands (the set of its sub-commands).                     *)
(***************************************************************************)
Leaf(name, aliases, root_aliases) ==
    [name |-> name, aliases |-> aliases, root_aliases |-> root_aliases,
     commands |-> {}]

Group(name, aliases, root_aliases, commands) ==
    [name |-> name, aliases |-> aliases, root_aliases |-> root_aliases,
     commands |-> commands]

Command ==
    [help_command |-> Leaf("help", <<>>, <<>>),
     ping |-> Leaf("ping", <<"p">>, <<>>),
     \* a group whose sub-commands declare root aliases, two levels deep
     tags |-> Group("tags", <<"t">>, <<>>, {"tags_get", "tags_edit"}),
     tags_get |-> Leaf("get", <<>>, <<"tag", "g">>),
     tags_edit |-> Group("edit", <<>>, <<>>, {"tags_edit_text"}),
     tags_edit_text |-> Leaf("text", <<>>, <<"edittag">>),
     \* its second root alias is the name of the help command
     halp |-> Leaf("halp", <<>>, <<"h", "help">>),
     \* another command named ping, with a root alias that is taken
     ping2 |-> Leaf("ping", <<>>, <<"help">>),
     \* shares the alias p with ping, and has a root alias that is taken
     pong |-> Leaf("pong", <<"p">>, <<"help">>),
     \* a group whose own root alias g is also a root alias of tags_get
     grp |-> Group("grp", <<>>, <<"g">>, {"grp_sub"}),
     grp_sub |-> Leaf("sub", <<>>, <<"s">>)]

\* the commands that cogs register with the bot
TopLevel == {"help_command", "ping", "tags", "halp", "ping2", "pong", "grp"}

\* the names remove_command is called with: every name, alias and root alias
\* of the commands above, and a name no command has
RemovableNames ==
    {"help", "ping", "p", "tags", "t", "tag", "g", "edittag", "halp", "h",
     "pong", "grp", "s", "nope"}

\* the result of remove_command when the name is not in the table
NoCommand == "None"

VARIABLES
    guild_available,         \* Bot._guild_available: "None", "unset", "set"
    public_guild_available,  \* Bot._public_guild_available: same
    connector,               \* Bot._connector: "None", "open", "closed"
    resolver,                \* Bot._resolver: "None", "open", "closed"
    http_session,            \* Bot.http_session: "open", "closed"
    connection,              \* the base discord.Client: "new", "open", "closed"
    waiters,                 \* calls of wait_until_guild_available(key) in flight
    loader,                  \* Bot._extension_loading_task: position of _load_extensions
    all_extensions,          \* Bot.all_extensions: None, or a frozenset of names
    ext_task,                \* per extension, the task running load_extension
    extensions,              \* Bot.extensions, in insertion order
    cogs,                    \* Bot.cogs, in insertion order
    sync,                    \* the task running _sync_app_commands
    proc,                    \* a call of process_commands(message)
    closing,                 \* the call of close()
    ever_set,                \* history: the signals that were set at least once
    last_event,              \* observer: the last gateway event handled
    all_commands,            \* Bot.all_commands: the top-level command table
    reg_call,                \* observer: the last add_command / remove_command
                             \* call, the table before it and its outcome
    handling,                \* the error event being handled by the ErrorHandler
                             \* cog or by Bot.on_error, and what it did so far
    app,                     \* the process running app.start()
    deletion                 \* a call of utils.messages.wait_for_deletion

gateVars == <<guild_available, public_guild_available, waiters, ever_set>>
resourceVars == <<connector, resolver, http_session, connection>>
loadVars == <<loader, all_extensions, ext_task, extensions, cogs>>
vars == <<guild_available, public_guild_available, connector, resolver,
          http_session, connection, waiters, loader, all_extensions, ext_task,
          extensions, cogs, sync, proc, closing, ever_set, last_event,
          all_commands, reg_call, handling, app, deletion>>
regVars == <<all_commands, reg_call>>
errVars == <<handling>>
utilVars == <<app, deletion>>

\* start() has not been called: nothing logged, the process has no exit status
NoApp ==
    [pos |-> "idle", exc |-> "None", trace |-> <<>>, exited |-> FALSE,
     exit_status |-> 0]

\* wait_for_deletion has not been called
NoDeletion ==
    [pos |-> "idle", guild |-> "None", thread |-> FALSE, user_ids |-> {},
     deletion_emojis |-> <<>>, todo |-> <<>>, calls |-> <<>>,
     raised |-> "None",
     got |-> [user |-> "None", emoji |-> "None", message_id |-> "None"],
     timed_out |-> FALSE, missed |-> FALSE, reactions |-> 0]

\* no error event has been handled yet
NoHandling ==
    [pos |-> "idle", event |-> "none", tag |-> FALSE,
     ctx |-> [invoked_with |-> <<>>, invoked_from_error_handler |-> FALSE],
     ctx_given |-> [invoked_with |-> <<>>, invoked_from_error_handler |-> FALSE],
     e |-> [cls |-> "None", original |-> "None", handled |-> FALSE],
     raised |-> [cls |-> "None", original |-> "None", handled |-> FALSE],
     trace |-> <<>>]

\* Bot.all_extensions before and after line 99
NoExtensions == [is_none |-> TRUE, names |-> {}]
FrozenSet(names) == [is_none |-> FALSE, names |-> names]

\* the elements of a sequence
Range(s) == {s[i] : i \in DOMAIN s}

(***************************************************************************)
(* Bot.__init__: no event, no connector, no resolver, no loading task.     *)
(***************************************************************************)
Init ==
    /\ guild_available = "None"
    /\ public_guild_available = "None"
    /\ connector = "None"
    /\ resolver = "None"
    /\ http_session = "open"
    /\ connection = "new"
    /\ waiters = {}
    /\ loader = "None"
    /\ all_extensions = NoExtensions
    /\ ext_task = [e \in Exts |-> "none"]
    /\ extensions = <<>>
    /\ cogs = <<>>
    /\ sync = [pos |-> "None", log |-> <<>>, pending |-> {}]
    /\ proc = [pos |-> "idle", pending |-> {}, loader_at_dispatch |-> "None"]
    /\ closing = [pos |-> "idle", ext_list |-> <<>>, cog_list |-> <<>>,
                  todo |-> <<>>, log |-> <<>>]
    /\ ever_set = {}
    /\ last_event = [kind |-> "none"]
    \* commands.Bot registers its help command when it is constructed
    /\ all_commands = [n \in {"help"} |-> "help_command"]
    /\ reg_call = [op |-> "none"]
    /\ handling = NoHandling
    /\ app = NoApp
    /\ deletion = NoDeletion

(***************************************************************************)
(* wait_until_guild_available(key), bot.py 207-217.  A caller is at        *)
(* "call" (about to enter), "wait_private" / "wait_public" (suspended in   *)
(* Event.wait), "woken_private" / "woken_public" (its future resolved by   *)
(* Event.set, not yet resumed) or "returned".                              *)
(***************************************************************************)
NeedsPrivate(key) == key = "" \/ key = "private"
\* line 216 without its `not key`
NeedsPublicKeyOnly(key) == key = "public"

NeedsPublic(key) == key = "" \/ key = "public"

\* from line 216 on: the public wait
WaitPublic(key, pga) ==
    IF NeedsPublic(key) /\ pga # "set" THEN "wait_public" ELSE "returned"

\* from line 214 on: the private wait, then the public one
WaitPrivate(key, ga, pga) ==
    IF NeedsPrivate(key) /\ ga # "set" THEN "wait_private"
    ELSE WaitPublic(key, pga)

\* the position a caller at pos reaches when it runs until it suspends or returns
wait_until_guild_available(key, pos, ga, pga) ==
    CASE pos = "call" -> WaitPrivate(key, ga, pga)
      [] pos = "woken_private" -> WaitPublic(key, pga)
      [] pos = "woken_public" -> "returned"
      [] OTHER -> pos

Runnable(pos) == pos \in {"call", "woken_private", "woken_public"}

\* a signal set without resolving the futures of the callers suspended on it
NotWoken(pos, which) == pos

\* asyncio.Event.set() resolves the future of every caller suspended on the event
Woken(pos, which) ==
    IF which = "private" /\ pos = "wait_private" THEN "woken_private"
    ELSE IF which = "public" /\ pos = "wait_public" THEN "woken_public"
    ELSE pos

WokenAll(pos, signals) ==
    Woken(Woken(pos, IF "private" \in signals THEN "private" ELSE "no"),
          IF "public" \in signals THEN "public" ELSE "no")

(***************************************************************************)
(* load_extensions(module, sync_app_commands), bot.py 111-124: creates the *)
(* task that runs _load_extensions and, if asked, the task that runs       *)
(* _sync_app_commands.  A created task first runs in a later step.         *)
(***************************************************************************)
\* load_extensions creating the sync task whatever sync_app_commands is
load_extensions_always_sync(sync_app_commands) ==
    /\ loader' = "call"
    /\ sync' = [sync EXCEPT !.pos = "created"]

load_extensions(sync_app_commands) ==
    /\ loader' = "call"
    /\ sync' = IF sync_app_commands THEN [sync EXCEPT !.pos = "created"] ELSE sync

(***************************************************************************)
(* setup_hook, bot.py 229-243.  discord.py calls it once, from login(),    *)
(* before the gateway connection is made.                                  *)
(***************************************************************************)
\* lines 233-241, then load_extensions called with sync_app_commands
Setup(sync_app_commands) ==
    /\ connection = "new"
    /\ closing.pos = "idle"
    /\ guild_available' = "unset"
    /\ public_guild_available' = "unset"
    /\ resolver' = "open"
    /\ connector' = "open"
    /\ connection' = "open"
    /\ load_extensions(sync_app_commands)

\* line 243 leaves sync_app_commands at its default, True
setup_hook ==
    /\ Setup(TRUE)
    /\ UNCHANGED <<http_session, waiters, all_extensions, ext_task, extensions,
                   cogs, proc, closing, ever_set, last_event, regVars, errVars, utilVars>>

(***************************************************************************)
(* on_guild_available(guild), bot.py 186-205.  The gateway dispatches      *)
(* events only while the connection is open, and the connection is made    *)
(* (Client.connect, after login) when the loading task created by          *)
(* setup_hook has had its first run.  log_to_dev_log (line 198) touches no *)
(* state of the model.                                                     *)
(***************************************************************************)
Connected == connection = "open" /\ loader # "call"

\* the signals that lines 201-205 set for this guild
SignalsOf(guild) ==
    {k \in {"private"} : guild.id = guild_id}
        \cup {k \in {"public"} : guild.id = public_guild_id}

\* line 196: not guild.roles or not guild.members or not guild.channels
CacheEmpty(guild) ==
    guild.roles = "empty" \/ guild.members = "empty" \/ guild.channels = "empty"

\* SetBy without the cache check of lines 196-199
SetByIgnoringCache(guild) ==
    IF guild.id # guild_id /\ guild.id # public_guild_id THEN {}
    ELSE SignalsOf(guild)

\* the signals the handler sets: none for a foreign guild or an empty cache
SetBy(guild) ==
    IF guild.id # guild_id /\ guild.id # public_guild_id THEN {}
    ELSE IF CacheEmpty(guild) THEN {}
    ELSE SignalsOf(guild)

on_guild_available(guild) ==
    /\ Connected
    /\ LET s == SetBy(guild)
           \* Event.set() wakes the waiters only if the event was not set
           wake == {k \in s : (k = "private" /\ guild_available # "set")
                              \/ (k = "public" /\ public_guild_available # "set")}
       IN /\ guild_available' = IF "private" \in s THEN "set" ELSE guild_available
          /\ public_guild_available' =
                 IF "public" \in s THEN "set" ELSE public_guild_available
          /\ waiters' = {[w EXCEPT !.pos = WokenAll(w.pos, wake),
                                    !.seen = IF w.pos = "returned" THEN @
                                             ELSE @ \cup s] : w \in waiters}
          /\ loader' = WokenAll(loader, wake)
          /\ ever_set' = ever_set \cup s
    /\ UNCHANGED <<resourceVars, all_extensions, ext_task, extensions, cogs,
                   sync, proc, closing, regVars, errVars, utilVars>>

(***************************************************************************)
(* on_guild_unavailable(guild), bot.py 178-184: Event.clear().             *)
(***************************************************************************)
\* ClearedBy clearing the private signal for every guild but the public one
ClearedByAnyGuild(guild) ==
    {k \in {"private"} : guild.id # public_guild_id}
        \cup {k \in {"public"} : guild.id = public_guild_id}

\* the signals the handler clears: lines 180-181 and 183-184
ClearedBy(guild) ==
    {k \in {"private"} : guild.id = guild_id}
        \cup {k \in {"public"} : guild.id = public_guild_id}

on_guild_unavailable(guild) ==
    /\ Connected
    /\ guild_available' =
           IF "private" \in ClearedBy(guild) THEN "unset" ELSE guild_available
    /\ public_guild_available' =
           IF "public" \in ClearedBy(guild) THEN "unset"
           ELSE public_guild_available
    /\ UNCHANGED <<resourceVars, waiters, loadVars, sync, proc, closing, ever_set,
                   regVars, errVars, utilVars>>

(***************************************************************************)
(* A cog or command calls wait_until_guild_available(key): the call runs   *)
(* until it returns or suspends; a woken caller resumes later.  The field  *)
(* seen is history: the signals that were set at some moment of the call.  *)
(***************************************************************************)
SignalsSet ==
    {k \in {"private"} : guild_available = "set"}
        \cup {k \in {"public"} : public_guild_available = "set"}

WaiterCall(key) ==
    /\ Connected
    /\ Cardinality(waiters) < MaxWaiters
    /\ waiters' = waiters \cup
           {[key |-> key,
             pos |-> wait_until_guild_available(key, "call", guild_available,
                                                public_guild_available),
             seen |-> SignalsSet]}
    /\ UNCHANGED <<guild_available, public_guild_available, resourceVars,
                   loadVars, sync, proc, closing, ever_set, last_event, regVars, errVars, utilVars>>

WaiterResume(w) ==
    /\ Runnable(w.pos)
    /\ waiters' = (waiters \ {w}) \cup
           {[w EXCEPT !.pos = wait_until_guild_available(w.key, w.pos,
                                  guild_available, public_guild_available)]}
    /\ UNCHANGED <<guild_available, public_guild_available, resourceVars,
                   loadVars, sync, proc, closing, ever_set, last_event, regVars, errVars, utilVars>>

(***************************************************************************)
(* _load_extensions(module), bot.py 89-102.  After the gate returns, the   *)
(* rest of the coroutine runs without suspending: walk_extensions, one     *)
(* create_task(load_extension(ext)) per extension, and the task is done.   *)
(* A task that awaits a finished task is woken.                            *)
(***************************************************************************)
\* utils/_extensions.walk_extensions(module): the discovered plugin modules
walk_extensions == Exts

\* utils/scheduling.create_task(coro): the state of a task created, not yet run
create_task == "scheduled"

\* _load_extensions without the await of line 97
LoaderGateSkipped(pos, ga, pga) == "returned"

\* line 97: where the loader stands after running wait_until_guild_available()
LoaderGate(pos, ga, pga) == wait_until_guild_available("", pos, ga, pga)

\* the extensions whose load_extension task has not completed successfully
NotLoaded == {e \in Exts : ext_task[e] # "done"}

_load_extensions ==
    /\ Runnable(loader)
    /\ LET pos == LoaderGate(loader, guild_available, public_guild_available)
       IN IF pos = "returned"
          THEN /\ all_extensions' = FrozenSet(walk_extensions)
               /\ ext_task' = [e \in Exts |->
                                  IF e \in all_extensions'.names THEN create_task
                                  ELSE ext_task[e]]
               /\ loader' = "done"
               /\ sync' = IF sync.pos = "await_load"
                          THEN [sync EXCEPT !.pos = "woken"] ELSE sync
               /\ proc' = IF proc.pos = "awaiting"
                          THEN [proc EXCEPT !.pos = "woken"] ELSE proc
          ELSE /\ loader' = pos
               /\ UNCHANGED <<all_extensions, ext_task, sync, proc>>
    /\ UNCHANGED <<gateVars, resourceVars, extensions, cogs, closing, last_event, regVars, errVars, utilVars>>

(***************************************************************************)
(* The task running load_extension(ext) (discord.py, created at bot.py     *)
(* 102): it imports the module and awaits its setup(bot), which awaits     *)
(* add_cog and the cog's cog_load.  cog_load may suspend                   *)
(* (config_verifier.py 22, accounts.py 20-26) and setup may raise; the cog *)
(* and the extension are registered together when setup returns.           *)
(***************************************************************************)
Loaded(ext) ==
    /\ ext_task' = [ext_task EXCEPT ![ext] = "done"]
    /\ extensions' = Append(extensions, ext)
    /\ cogs' = Append(cogs, CogOf(ext))

load_extension(ext) ==
    /\ ext_task[ext] = "scheduled"
    /\ \/ Loaded(ext)
       \/ /\ ext_task' = [ext_task EXCEPT ![ext] = "suspended"]
          /\ UNCHANGED <<extensions, cogs>>
       \/ /\ ext_task' = [ext_task EXCEPT ![ext] = "failed"]
          /\ UNCHANGED <<extensions, cogs>>
    /\ UNCHANGED <<gateVars, resourceVars, loader, all_extensions, sync, proc,
                   closing, last_event, regVars, errVars, utilVars>>

load_extension_resume(ext) ==
    /\ ext_task[ext] = "suspended"
    /\ \/ Loaded(ext)
       \/ /\ ext_task' = [ext_task EXCEPT ![ext] = "failed"]
          /\ UNCHANGED <<extensions, cogs>>
    /\ UNCHANGED <<gateVars, resourceVars, loader, all_extensions, sync, proc,
                   closing, last_event, regVars, errVars, utilVars>>

(***************************************************************************)
(* _sync_app_commands, bot.py 104-109.  sync.log lists the tree.sync calls *)
(* made; each one suspends on its HTTP request.  sync.pending records the  *)
(* extensions not loaded when the first tree.sync call was made.           *)
(***************************************************************************)
\* _sync_app_commands without the await of line 106
SyncMayStartAtOnce(ldr) == TRUE

\* line 106: the task the sync awaits is finished
SyncMayStart(ldr) == ldr = "done"

\* the load_extension tasks were queued before the one resumed here
FirstRunsDone == \A e \in Exts : ext_task[e] # "scheduled"

\* line 107: await self.tree.sync()
SyncStart ==
    sync' = [pos |-> "sync_global", log |-> Append(sync.log, "global"),
             pending |-> NotLoaded]

_sync_app_commands ==
    /\ \/ /\ sync.pos = "created"
          /\ IF SyncMayStart(loader) THEN FirstRunsDone /\ SyncStart
             ELSE sync' = [sync EXCEPT !.pos = "await_load"]
       \/ /\ sync.pos = "woken"
          /\ FirstRunsDone
          /\ SyncStart
       \/ /\ sync.pos = "sync_global"
          /\ sync' = [sync EXCEPT !.pos = "sync_public",
                                  !.log = Append(@, public_guild_id)]
       \/ /\ sync.pos = "sync_public"
          /\ sync' = [sync EXCEPT !.pos = "sync_private",
                                  !.log = Append(@, guild_id)]
       \/ /\ sync.pos = "sync_private"
          /\ sync' = [sync EXCEPT !.pos = "done"]
    /\ UNCHANGED <<gateVars, resourceVars, loadVars, proc, closing, last_event, regVars, errVars, utilVars>>

(***************************************************************************)
(* process_commands(message), bot.py 219-227.  proc.pending records the    *)
(* extensions not loaded, and proc.loader_at_dispatch the loading task,    *)
(* at the moment super().process_commands(message) is called.              *)
(***************************************************************************)
\* process_commands without the await of line 226
DispatchMayStartAtOnce(ldr) == TRUE

\* lines 225-226: nothing to await, or the awaited task is finished
DispatchMayStart(ldr) == ldr = "None" \/ ldr = "done"

Dispatch ==
    proc' = [pos |-> "dispatched", pending |-> NotLoaded,
             loader_at_dispatch |-> loader]

process_commands ==
    /\ \/ /\ proc.pos = "idle"
          /\ Connected
          /\ IF DispatchMayStart(loader) THEN Dispatch
             ELSE proc' = [proc EXCEPT !.pos = "awaiting"]
       \/ /\ proc.pos = "woken"
          /\ FirstRunsDone
          /\ Dispatch
    /\ UNCHANGED <<gateVars, resourceVars, loadVars, sync, closing, last_event, regVars, errVars, utilVars>>

\* super().process_commands(message) has finished; the next message may come
process_commands_done ==
    /\ proc.pos = "dispatched"
    /\ proc' = [pos |-> "idle", pending |-> {}, loader_at_dispatch |-> "None"]
    /\ UNCHANGED <<gateVars, resourceVars, loadVars, sync, closing, last_event, regVars, errVars, utilVars>>

(***************************************************************************)
(* close(), bot.py 245-266.  closing.pos names the call close() makes      *)
(* next, closing.ext_list and closing.cog_list are list(self.extensions)   *)
(* and list(self.cogs) as taken at lines 248 and 252, closing.todo is the  *)
(* rest of the list being iterated, closing.log the calls made so far.  Each awaited call is one step.  unload_extension    *)
(* and remove_cog may raise an Exception, which suppress(Exception)        *)
(* swallows; the closes of lines 257-266 are not guarded.                  *)
(***************************************************************************)
Without(seq, x) == SelectSeq(seq, LAMBDA y : y # x)

\* the closes with the session closed after the connector and the resolver
CloseOrderSessionLast == <<"base", "connector", "resolver", "http_session">>

\* the order of the unguarded closes, lines 257-266
CloseOrder == <<"base", "http_session", "connector", "resolver">>

\* lines 259-266: the first of the closes from index i on whose resource exists
RECURSIVE NextClose(_, _, _)
NextClose(i, conn, res) ==
    IF i > Len(CloseOrder) THEN "done"
    ELSE IF CloseOrder[i] = "connector" /\ conn = "None" THEN NextClose(i + 1, conn, res)
    ELSE IF CloseOrder[i] = "resolver" /\ res = "None" THEN NextClose(i + 1, conn, res)
    ELSE CloseOrder[i]

IndexOf(call) == CHOOSE i \in DOMAIN CloseOrder : CloseOrder[i] = call

\* line 252: the cog loop starts on list(self.cogs); line 257 follows it
EnterCogLoop(c, cogsNow) ==
    IF cogsNow # <<>>
    THEN [c EXCEPT !.pos = "remove", !.cog_list = cogsNow, !.todo = cogsNow]
    ELSE [c EXCEPT !.pos = "base", !.todo = <<>>]

\* line 248: the next extension of the list, or on to the cogs
AfterUnload(c, rest, cogsNow) ==
    IF rest # <<>> THEN [c EXCEPT !.pos = "unload", !.todo = rest]
    ELSE EnterCogLoop(c, cogsNow)

\* line 252: the next cog of the list, or on to super().close()
AfterRemove(c, rest) ==
    IF rest # <<>> THEN [c EXCEPT !.pos = "remove", !.todo = rest]
    ELSE [c EXCEPT !.pos = "base", !.todo = <<>>]

\* the loops without suppress(Exception): the exception leaves close()
Propagated(c) == [c EXCEPT !.pos = "raised", !.todo = <<>>]

\* lines 249 and 253, suppress(Exception): close() goes on where c stands
Suppressed(c) == c

Logged(c, entry) == [c EXCEPT !.log = Append(@, entry)]

close_call ==
    /\ closing.pos = "idle"
    /\ closing' = AfterUnload([closing EXCEPT !.ext_list = extensions],
                              extensions, cogs)
    /\ UNCHANGED <<gateVars, resourceVars, loadVars, sync, proc, last_event, regVars, errVars, utilVars>>

\* lines 248-250: await self.unload_extension(ext), which also removes its cogs
close_unload ==
    /\ closing.pos = "unload"
    /\ LET ext == Head(closing.todo)
           rest == Tail(closing.todo)
       IN \/ /\ ext \in Range(extensions)
             /\ extensions' = Without(extensions, ext)
             /\ cogs' = Without(cogs, CogOf(ext))
             /\ closing' = AfterUnload(Logged(closing, <<"unload", ext, "ok">>),
                                       rest, cogs')
          \/ /\ UNCHANGED <<extensions, cogs>>
             /\ closing' = Suppressed(
                    AfterUnload(Logged(closing, <<"unload", ext, "raised">>),
                                rest, cogs))
    /\ UNCHANGED <<gateVars, resourceVars, loader, all_extensions, ext_task,
                   sync, proc, last_event, regVars, errVars, utilVars>>

\* lines 252-254: await self.remove_cog(cog)
close_remove ==
    /\ closing.pos = "remove"
    /\ LET cog == Head(closing.todo)
           rest == Tail(closing.todo)
       IN \/ /\ cogs' = Without(cogs, cog)
             /\ closing' = AfterRemove(Logged(closing, <<"remove", cog, "ok">>), rest)
          \/ /\ UNCHANGED cogs
             /\ closing' = Suppressed(
                    AfterRemove(Logged(closing, <<"remove", cog, "raised">>), rest))
    /\ UNCHANGED <<gateVars, resourceVars, loader, all_extensions, ext_task,
                   extensions, sync, proc, last_event, regVars, errVars, utilVars>>

\* lines 257-266: super().close(), then the session, the connector, the resolver
close_resources ==
    /\ closing.pos \in Range(CloseOrder)
    /\ connection' = IF closing.pos = "base" THEN "closed" ELSE connection
    /\ http_session' = IF closing.pos = "http_session" THEN "closed" ELSE http_session
    /\ connector' = IF closing.pos = "connector" THEN "closed" ELSE connector
    /\ resolver' = IF closing.pos = "resolver" THEN "closed" ELSE resolver
    /\ closing' = [closing EXCEPT
                      !.pos = NextClose(IndexOf(closing.pos) + 1, connector, resolver),
                      !.log = Append(@, <<closing.pos>>)]
    /\ UNCHANGED <<gateVars, loadVars, sync, proc, last_event, regVars, errVars, utilVars>>

(***************************************************************************)
(* The command registry.  all_commands is a dict from names to commands.   *)
(* The base class calls are discord.py's GroupMixin.add_command and        *)
(* GroupMixin.remove_command, which Bot.add_command (bot.py 154) and       *)
(* Bot.remove_command (bot.py 164) call through super().                   *)
(***************************************************************************)
Pop(tbl, key) == [k \in DOMAIN tbl \ {key} |-> tbl[k]]

Put(tbl, key, command) ==
    [k \in DOMAIN tbl \cup {key} |-> IF k = key THEN command ELSE tbl[k]]

\* a call's outcome: the table it leaves and the name that conflicted ("" if
\* no CommandRegistrationError was raised)
Done(tbl) == [tbl |-> tbl, error |-> ""]
Raised(tbl, name) == [tbl |-> tbl, error |-> name]

\* lines 144-145: self.all_commands.pop(alias, None) for each root alias
RECURSIVE PopAll(_, _)
PopAll(tbl, aliases) ==
    IF aliases = <<>> THEN tbl ELSE PopAll(Pop(tbl, Head(aliases)), Tail(aliases))

\* _remove_root_aliases(command), bot.py 138-145
RECURSIVE _remove_root_aliases(_, _), RemoveSubcommands(_, _)
RemoveSubcommands(tbl, subcommands) ==
    IF subcommands = {} THEN tbl
    ELSE LET sc == CHOOSE c \in subcommands : TRUE
         IN RemoveSubcommands(_remove_root_aliases(tbl, sc), subcommands \ {sc})

\* _remove_root_aliases without the recursion of lines 140-142
_remove_root_aliases_own_only(tbl, command) ==
    PopAll(tbl, Command[command].root_aliases)

_remove_root_aliases(tbl, command) ==
    PopAll(RemoveSubcommands(tbl, Command[command].commands),
           Command[command].root_aliases)

\* GroupMixin.remove_command(name): pops the name; unless the name is one of
\* the command's aliases, pops the aliases too, putting back an alias that
\* another command holds
GroupMixinRemove(tbl, name) ==
    IF name \notin DOMAIN tbl THEN [tbl |-> tbl, command |-> NoCommand]
    ELSE LET command == tbl[name]
             popped == Pop(tbl, name)
             aliases == Range(Command[command].aliases)
         IN IF name \in aliases THEN [tbl |-> popped, command |-> command]
            ELSE [tbl |-> [k \in {a \in DOMAIN popped :
                                     ~(a \in aliases /\ popped[a] = command)}
                              |-> popped[k]],
                  command |-> command]

\* Bot.remove_command(name), bot.py 157-170, as a function of the table
RemoveCommand(tbl, name) ==
    LET base == GroupMixinRemove(tbl, name)
    IN IF base.command = NoCommand THEN base
       ELSE [tbl |-> _remove_root_aliases(base.tbl, base.command),
             command |-> base.command]

\* GroupMixin.add_command(command): the name, then each alias; an alias that
\* is taken makes it call self.remove_command(command.name), which is
\* Bot.remove_command, and raise
RECURSIVE GroupMixinAddAliases(_, _, _)
GroupMixinAddAliases(tbl, command, aliases) ==
    IF aliases = <<>> THEN Done(tbl)
    ELSE IF Head(aliases) \in DOMAIN tbl
         THEN Raised(RemoveCommand(tbl, Command[command].name).tbl, Head(aliases))
         ELSE GroupMixinAddAliases(Put(tbl, Head(aliases), command), command,
                                   Tail(aliases))

GroupMixinAdd(tbl, command) ==
    IF Command[command].name \in DOMAIN tbl
    THEN Raised(tbl, Command[command].name)
    ELSE GroupMixinAddAliases(Put(tbl, Command[command].name, command), command,
                              Command[command].aliases)

\* lines 132-136 without the test of line 133: the alias is always assigned
RECURSIVE AddOwnRootAliasesUnchecked(_, _, _)
AddOwnRootAliasesUnchecked(tbl, command, aliases) ==
    IF aliases = <<>> THEN Done(tbl)
    ELSE AddOwnRootAliasesUnchecked(Put(tbl, Head(aliases), command), command,
                                    Tail(aliases))

\* lines 132-136: the command's own root aliases, in order
RECURSIVE AddOwnRootAliases(_, _, _)
AddOwnRootAliases(tbl, command, aliases) ==
    IF aliases = <<>> THEN Done(tbl)
    ELSE IF Head(aliases) \in DOMAIN tbl THEN Raised(tbl, Head(aliases))
         ELSE AddOwnRootAliases(Put(tbl, Head(aliases), command), command,
                                Tail(aliases))

\* line 128 without the recursion into the sub-commands of a group
NoSubcommands(command) == {}

\* lines 128-129: command.commands of a Group, nothing of a plain command
Subcommands(command) == Command[command].commands

\* _add_root_aliases(command), bot.py 126-136: the set of its outcomes, one
\* for each order in which the set command.commands can be iterated
RECURSIVE _add_root_aliases(_, _), AddSubcommands(_, _)
AddSubcommands(tbl, subcommands) ==
    IF subcommands = {} THEN {Done(tbl)}
    ELSE UNION {UNION {IF o.error # "" THEN {o}
                       ELSE AddSubcommands(o.tbl, subcommands \ {sc})
                       : o \in _add_root_aliases(tbl, sc)}
                : sc \in subcommands}

_add_root_aliases(tbl, command) ==
    {IF o.error # "" THEN o
     ELSE AddOwnRootAliases(o.tbl, command, Command[command].root_aliases)
     : o \in AddSubcommands(tbl, Subcommands(command))}

\* Bot.add_command(command), bot.py 152-155: the outcomes of a call
AddCommand(tbl, command) ==
    LET base == GroupMixinAdd(tbl, command)
    IN IF base.error # "" THEN {base} ELSE _add_root_aliases(base.tbl, command)

add_command(command) ==
    /\ \E o \in AddCommand(all_commands, command) :
           /\ all_commands' = o.tbl
           /\ reg_call' = [op |-> "add", command |-> command,
                           before |-> all_commands, error |-> o.error]
    /\ UNCHANGED <<gateVars, resourceVars, loadVars, sync, proc, closing, last_event,
                   errVars, utilVars>>

\* observer: the call before this one was a successful add_command of the
\* command of this name
JustAdded(name) ==
    /\ reg_call.op = "add"
    /\ reg_call.error = ""
    /\ Command[reg_call.command].name = name

NotJustAdded == [valid |-> FALSE, before |-> [k \in {} |-> NoCommand]]

remove_command(name) ==
    /\ LET r == RemoveCommand(all_commands, name)
       IN /\ all_commands' = r.tbl
          /\ reg_call' = [op |-> "remove", name |-> name,
                          before |-> all_commands, result |-> r.command,
                          added |-> IF JustAdded(name)
                                        THEN [valid |-> TRUE,
                                              before |-> reg_call.before]
                                    ELSE NotJustAdded]
    /\ UNCHANGED <<gateVars, resourceVars, loadVars, sync, proc, closing, last_event,
                   errVars, utilVars>>

AddCommands == \E command \in TopLevel : add_command(command)

RemoveCommands == \E name \in RemovableNames : remove_command(name)

RegistryNext == AddCommands \/ RemoveCommands

SpecRegistry == Init /\ [][RegistryNext]_vars

(***************************************************************************)
(* The gateway events of the bot's life, their input not observed.         *)
(***************************************************************************)
GuildAvailable ==
    \E guild \in Guilds : on_guild_available(guild) /\ UNCHANGED last_event

GuildUnavailable ==
    \E guild \in Guilds : on_guild_unavailable(guild) /\ UNCHANGED last_event

LoadExtension == \E ext \in Exts : load_extension(ext)

LoadExtensionResume == \E ext \in Exts : load_extension_resume(ext)

(***************************************************************************)
(* Startup: setup_hook, the gateway's guild events, the loading task, the  *)
(* load_extension tasks, the sync task and process_commands.               *)
(***************************************************************************)
Next ==
    \/ setup_hook
    \/ GuildAvailable
    \/ GuildUnavailable
    \/ _load_extensions
    \/ LoadExtension
    \/ LoadExtensionResume
    \/ _sync_app_commands
    \/ process_commands
    \/ process_commands_done

Spec == Init /\ [][Next]_vars

(***************************************************************************)
(* The startup under fair scheduling.  The event loop runs every task that *)
(* is ready: the loading task when created or woken (bot.py 120-122), each *)
(* load_extension task at its first run (bot.py 101-102) and the sync task *)
(* (bot.py 123-124), whose tree.sync requests each complete.  Nothing is   *)
(* assumed of the gateway's events, nor of what a cog_load waits for.      *)
(***************************************************************************)
Fairness ==
    /\ WF_vars(_load_extensions)
    /\ \A ext \in Exts : WF_vars(load_extension(ext))
    /\ WF_vars(_sync_app_commands)

SpecFair == Init /\ [][Next]_vars /\ Fairness

(***************************************************************************)
(* Shutdown: close() called at any moment of the loading of extensions.    *)
(***************************************************************************)
CloseNext ==
    \/ setup_hook
    \/ GuildAvailable
    \/ GuildUnavailable
    \/ _load_extensions
    \/ LoadExtension
    \/ LoadExtensionResume
    \/ close_call
    \/ close_unload
    \/ close_remove
    \/ close_resources

SpecClose == Init /\ [][CloseNext]_vars

(***************************************************************************)
(* The gate, its events observed: last_event records the guild each        *)
(* handler was called with (of an unavailable guild, the id it reads).     *)
(***************************************************************************)
GateAvailable ==
    \E guild \in Guilds :
        /\ on_guild_available(guild)
        /\ last_event' = [kind |-> "available", guild |-> guild]

GateUnavailable ==
    \E guild \in Guilds :
        /\ on_guild_unavailable(guild)
        /\ last_event' = [kind |-> "unavailable", id |-> guild.id]

GateNext ==
    \/ setup_hook
    \/ GateAvailable
    \/ GateUnavailable
    \/ _load_extensions

SpecGate == Init /\ [][GateNext]_vars

(***************************************************************************)
(* Callers of wait_until_guild_available(key), the loading task among      *)
(* them, against the guild events.                                         *)
(***************************************************************************)
WaiterCalls == \E key \in Keys : WaiterCall(key)

WaiterResumes == \E w \in waiters : WaiterResume(w)

WaitNext ==
    \/ setup_hook
    \/ GuildAvailable
    \/ GuildUnavailable
    \/ WaiterCalls
    \/ WaiterResumes
    \/ _load_extensions

SpecWait == Init /\ [][WaitNext]_vars

(***************************************************************************)
(* The ErrorHandler cog, exts/backend/error_handler.py.                    *)
(*                                                                         *)
(* An error is its class, the exception it wraps (CommandInvokeError and   *)
(* ConversionError) and whether a local handler left a `handled` attribute *)
(* on it.  Bases gives, for each class the handler tells apart, the        *)
(* classes it is an instance of (discord.ext.commands.errors).             *)
(***************************************************************************)
Bases ==
    [CommandNotFound |-> {"CommandNotFound", "CommandError"},
     MissingRequiredArgument |->
         {"MissingRequiredArgument", "UserInputError", "CommandError"},
     TooManyArguments |-> {"TooManyArguments", "UserInputError", "CommandError"},
     BadArgument |-> {"BadArgument", "UserInputError", "CommandError"},
     BadUnionArgument |-> {"BadUnionArgument", "UserInputError", "CommandError"},
     ArgumentParsingError |->
         {"ArgumentParsingError", "UserInputError", "CommandError"},
     UserInputError |-> {"UserInputError", "CommandError"},
     BotMissingPermissions |->
         {"BotMissingPermissions", "CheckFailure", "CommandError"},
     BotMissingRole |-> {"BotMissingRole", "CheckFailure", "CommandError"},
     BotMissingAnyRole |-> {"BotMissingAnyRole", "CheckFailure", "CommandError"},
     NoPrivateMessage |-> {"NoPrivateMessage", "CheckFailure", "CommandError"},
     CheckFailure |-> {"CheckFailure", "CommandError"},
     CommandOnCooldown |-> {"CommandOnCooldown", "CommandError"},
     MaxConcurrencyReached |-> {"MaxConcurrencyReached", "CommandError"},
     CommandInvokeError |-> {"CommandInvokeError", "CommandError"},
     ConversionError |-> {"ConversionError", "CommandError"},
     DisabledCommand |-> {"DisabledCommand", "CommandError"},
     CommandError |-> {"CommandError"}]

\* exceptions that are not command errors: a Forbidden with the error code of
\* a user who blocked the bot, another Forbidden, any other exception
Originals == {"Forbidden(90001)", "Forbidden(50013)", "Exception"}

NoOriginal == "None"

NoError == [cls |-> "None", original |-> NoOriginal, handled |-> FALSE]

CommandErrors ==
    {[cls |-> c, original |-> o, handled |-> h] :
         c \in DOMAIN Bases, o \in Originals \cup {NoOriginal}, h \in BOOLEAN}

\* the command errors discord.py dispatches: only the two wrappers carry an
\* original exception
Errors ==
    {e \in CommandErrors :
         e.original # NoOriginal <=> e.cls \in {"CommandInvokeError", "ConversionError"}}

isinstance(e, class) == e.cls \in DOMAIN Bases /\ class \in Bases[e.cls]

\* what a command invoked from a fallback can raise: a command error without
\* `handled` (no local handler ran), or another exception
Raisable ==
    {e \in Errors : ~e.handled}
        \cup {[cls |-> o, original |-> NoOriginal, handled |-> FALSE] :
                  o \in Originals}

\* line 120: errors.CommandInvokeError(err)
CommandInvokeError(err) ==
    [cls |-> "CommandInvokeError", original |-> err.cls, handled |-> FALSE]

(***************************************************************************)
(* What the handler did, in order: one entry per call it made.             *)
(***************************************************************************)
Entry(op, what) ==
    [op |-> op, what |-> what, n |-> 0, channel |-> "None", kick |-> FALSE]

Send(what) == <<Entry("send", what)>>

Log(level) == <<Entry("log", level)>>

\* lines 61-63 and 338-350: one ctx.send of the error embed, with the help
\* view when the help command can format ctx.command
send_error_with_help(title, with_help) ==
    Send(IF with_help THEN title \o " + help" ELSE title)

\* lines 305-336
handle_user_input_error(e, with_help) ==
    IF isinstance(e, "MissingRequiredArgument")
        THEN send_error_with_help("Missing required argument", with_help)
    ELSE IF isinstance(e, "TooManyArguments")
        THEN send_error_with_help("Too many arguments", with_help)
    ELSE IF isinstance(e, "BadArgument")
        THEN send_error_with_help("Bad argument", with_help)
    ELSE IF isinstance(e, "BadUnionArgument")
        THEN send_error_with_help("Bad argument", with_help)
    ELSE IF isinstance(e, "ArgumentParsingError")
        THEN Send("Argument parsing error")
    ELSE send_error_with_help("Input error", with_help)

\* lines 352-376
handle_check_failure(e) ==
    IF \/ isinstance(e, "BotMissingPermissions")
       \/ isinstance(e, "BotMissingRole")
       \/ isinstance(e, "BotMissingAnyRole")
        THEN Send("missing permissions or roles")
    ELSE IF isinstance(e, "NoPrivateMessage") THEN Send("NoPrivateMessage")
    ELSE <<>>

\* the generic message without the log entry
handle_unexpected_error_unlogged(exc) == Send("unexpected error")

\* lines 378-389: the generic message, then the error-level log entry with
\* the exception as exc_info
handle_unexpected_error(exc) ==
    Send("unexpected error") \o <<Entry("log.error", exc)>>

\* utils/error_handling.handle_forbidden_from_block: returns when the error
\* is the one of a user who blocked the bot, raises the error otherwise
handle_forbidden_from_block(error) ==
    IF error = "Forbidden(90001)" THEN "handled" ELSE "raise"

IsForbidden(original) == original \in {"Forbidden(90001)", "Forbidden(50013)"}

\* lines 130-137 without the block check
HandleInvokeErrorUnchecked(e) == handle_unexpected_error(e.original)

\* lines 130-137
HandleInvokeError(e) ==
    IF IsForbidden(e.original)
        THEN IF handle_forbidden_from_block(e.original) = "raise"
                 THEN handle_unexpected_error(e.original)
                 ELSE <<>>
    ELSE handle_unexpected_error(e.original)

\* a disabled command answered with a message
HandleDisabledAnswered(e) == Log("debug") \o Send("disabled")

\* lines 140-141: a disabled command is logged at debug level only
HandleDisabled(e) == Log("debug")

\* lines 121-144: the branches of on_command_error after the fallback branch
HandleCategory(e, with_help) ==
    IF isinstance(e, "UserInputError")
        THEN Log("debug") \o handle_user_input_error(e, with_help)
    ELSE IF isinstance(e, "CheckFailure")
        THEN Log("debug") \o handle_check_failure(e)
    ELSE IF isinstance(e, "CommandOnCooldown")
              \/ isinstance(e, "MaxConcurrencyReached")
        THEN Log("debug") \o Send("cooldown")
    ELSE IF isinstance(e, "CommandInvokeError") THEN HandleInvokeError(e)
    ELSE IF isinstance(e, "ConversionError")
        THEN handle_unexpected_error(e.original)
    ELSE IF isinstance(e, "DisabledCommand") THEN HandleDisabled(e)
    ELSE handle_unexpected_error(e.cls)

\* lines 89-93 and 100-102: is the error left alone, sent down the fallbacks,
\* or handled by its category
EntersFallbacks(ctx, e) ==
    isinstance(e, "CommandNotFound") /\ ~ctx.invoked_from_error_handler

\* on_command_error without the check of lines 89-93
LeftToLocalHandlerNever(e) == FALSE

\* line 89: hasattr(e, "handled")
LeftToLocalHandler(e) == e.handled

\* a call of on_command_error that does not enter the fallbacks (the only
\* kind a call made by the handler itself can be, the flag being set)
Handle(ctx, e, with_help) ==
    IF LeftToLocalHandler(e) THEN Log("trace") ELSE HandleCategory(e, with_help)

\* the fallback branch without line 105
Unmarked(ctx) == ctx

\* line 105: ctx.invoked_from_error_handler = True
Marked(ctx) == [ctx EXCEPT !.invoked_from_error_handler = TRUE]

(***************************************************************************)
(* The invoked name is the sequence of its characters; the names tried are *)
(* a prefix, some h's and a suffix.                                        *)
(***************************************************************************)
Hs(k) == [i \in 1..k |-> "h"]

Prefixes == {<<"s">>, <<"S">>, <<"u", "n", "s">>}

Suffixes == {<<>>, <<"x">>}

\* the suffix is tried after two h's
Names ==
    {p \o Hs(k) : p \in Prefixes, k \in 0..MaxH}
        \cup {p \o Hs(2) \o s : p \in Prefixes, s \in Suffixes}

\* str.lower()
lower(name) ==
    [i \in DOMAIN name |->
         IF name[i] = "S" THEN "s" ELSE IF name[i] = "H" THEN "h" ELSE name[i]]

\* str.count(c) for a single character c
count(name, c) == Cardinality({i \in DOMAIN name : name[i] = c})

\* str.startswith(prefix)
startswith(name, prefix) ==
    Len(name) >= Len(prefix) /\ SubSeq(name, 1, Len(prefix)) = prefix

min(a, b) == IF a <= b THEN a ELSE b

\* the context of the failed invocation: the name it was invoked with and the
\* attribute the handler sets on it
Contexts ==
    [invoked_with : Names, invoked_from_error_handler : BOOLEAN]

\* the words after the name in the message: how many words the message has,
\* the channel the second word converts to (TextChannelConverter, then
\* VoiceChannelConverter, both failing with ChannelNotFound: None), and the
\* third word
Args ==
    [len : 1..3, channel : {"None", "text", "voice"}, third : {"true", "false"}]

\* lines 178, 182-189
ChannelOf(args) == IF args.len > 1 THEN args.channel ELSE "None"

\* lines 180, 191-193
KickOf(args) ==
    args.len > 2 /\ ChannelOf(args) # "None" /\ args.third = "true"

\* Duration counting the h's after "shh" only
DurationAfterShh(command) == min((count(command, "h") - 2) * 2, MaxDuration)

\* line 179: min(command.count("h") * 2, 15)
Duration(command) == min(count(command, "h") * 2, MaxDuration)

Invoke(what, n, channel, kick) ==
    <<[op |-> "invoke", what |-> what, n |-> n, channel |-> channel,
       kick |-> kick]>>

\* how a fallback ended: what it returned ("True", "False", "None") or that
\* it raised, the calls it made, and the exception it raised
Outcome(ret, trace, raised) == [ret |-> ret, trace |-> trace, raised |-> raised]

Raises(trace) == {Outcome("raise", trace, r) : r \in Raisable}

\* the commands a lookup by name can find
Registries == [silence : BOOLEAN, unsilence : BOOLEAN]

\* Command.can_run / Bot.can_run: the checks pass, fail, or raise a CommandError
CanRun == {"True", "False", "CommandError"}

(***************************************************************************)
(* try_silence(ctx), lines 146-206.                                        *)
(***************************************************************************)
\* try_silence without the except clause of lines 167-175
try_silence_checks_propagate(ctx, registry, can_run, args) ==
    LET command == lower(ctx.invoked_with)
        channel == ChannelOf(args)
    IN IF ~registry.silence
           THEN {Outcome("False", <<Entry("skip", "silence not registered")>>,
                         NoError)}
       ELSE IF can_run = "False"
           THEN {Outcome("False", <<Entry("skip", "silence checks failed")>>,
                         NoError)}
       ELSE IF can_run = "CommandError"
           THEN Raises(<<Entry("skip", "silence checks raised")>>)
       ELSE IF startswith(command, <<"s", "h", "h">>)
           THEN LET call == Invoke("silence", Duration(command), channel,
                                   KickOf(args))
                IN {Outcome("True", call, NoError)} \cup Raises(call)
       ELSE IF startswith(command, <<"u", "n", "s", "h", "h">>)
           THEN IF registry.unsilence
                    THEN LET call == Invoke("unsilence", 0, channel, FALSE)
                         IN {Outcome("True", call, NoError)} \cup Raises(call)
                ELSE {Outcome("raise", Invoke("None", 0, channel, FALSE),
                              [cls |-> "Exception", original |-> NoOriginal,
                               handled |-> FALSE])}
       ELSE {Outcome("False", <<>>, NoError)}

try_silence(ctx, registry, can_run, args) ==
    LET command == lower(ctx.invoked_with)
        channel == ChannelOf(args)
    IN IF ~registry.silence
           THEN {Outcome("False", <<Entry("skip", "silence not registered")>>,
                         NoError)}
       ELSE IF can_run = "False"
           THEN {Outcome("False", <<Entry("skip", "silence checks failed")>>,
                         NoError)}
       ELSE IF can_run = "CommandError"
           THEN {Outcome("False", <<Entry("skip", "silence checks raised")>>,
                         NoError)}
       ELSE IF startswith(command, <<"s", "h", "h">>)
           THEN LET call == Invoke("silence", Duration(command), channel,
                                   KickOf(args))
                IN {Outcome("True", call, NoError)} \cup Raises(call)
       ELSE IF startswith(command, <<"u", "n", "s", "h", "h">>)
           THEN IF registry.unsilence
                    THEN LET call == Invoke("unsilence", 0, channel, FALSE)
                         IN {Outcome("True", call, NoError)} \cup Raises(call)
                \* ctx.invoke(None, ...) calls None: a TypeError
                ELSE {Outcome("raise", Invoke("None", 0, channel, FALSE),
                              [cls |-> "Exception", original |-> NoOriginal,
                               handled |-> FALSE])}
       ELSE {Outcome("False", <<>>, NoError)}

(***************************************************************************)
(* try_run_fixed_codeblock(ctx), lines 237-268.  reparsed is               *)
(* new_ctx.command, the command the message names once a space is put      *)
(* before its first ```: None, or a registered command.  Bot.invoke        *)
(* dispatches the command errors of the command itself as events of their  *)
(* own; what it lets through is another exception.                         *)
(***************************************************************************)
Reparsed == {"None", "eval", "timeit", "help"}

\* allowed_commands holding every command
AnyCommandAllowed == Reparsed \ {"None"}

\* line 254-257
allowed_commands == {"eval", "timeit"}

try_run_fixed_codeblock(reparsed) ==
    IF reparsed = "None" THEN {Outcome("False", <<>>, NoError)}
    ELSE IF reparsed \notin allowed_commands
        THEN {Outcome("False", <<Entry("reparsed", reparsed)>>, NoError)}
    ELSE LET call == Invoke(reparsed, 0, "None", FALSE)
         IN {Outcome("True", call, NoError)}
                \cup {Outcome("raise", call, r) :
                          r \in {x \in Raisable : x.cls \in Originals}}

(***************************************************************************)
(* try_get_tag(ctx) up to the call of send_command_suggestion, lines       *)
(* 208-233.  lookup is how the call of tags_cog.get_command_ctx ends: it   *)
(* returns ("return": True after sending the tag when a tag has the name,  *)
(* False when none has) or it raises.                                      *)
(***************************************************************************)
Lookups == {"return", "raise"}

\* try_get_tag going on to the suggestion after the tag was sent
try_get_tag_then_suggest(ctx, tag, tags_cog, is_member, can_run, lookup) ==
    IF ~tags_cog THEN {Outcome("None", <<Entry("skip", "no Tags cog")>>, NoError)}
    ELSE IF ctx.invoked_with = <<>> \/ ~is_member
        THEN {Outcome("None", <<Entry("skip", "not a member")>>, NoError)}
    ELSE IF can_run # "True"
        THEN {Outcome("None", <<Entry("skip", "tag checks failed")>>, NoError)}
    ELSE IF lookup = "raise"
        THEN Raises(<<Entry("lookup", "raise")>>)
    ELSE IF tag
        THEN {Outcome("suggest", <<Entry("lookup", "tag")>> \o Send("tag"),
                      NoError)}
    ELSE {Outcome("suggest", <<Entry("lookup", "no tag")>>, NoError)}

try_get_tag(ctx, tag, tags_cog, is_member, can_run, lookup) ==
    IF ~tags_cog THEN {Outcome("None", <<Entry("skip", "no Tags cog")>>, NoError)}
    ELSE IF ctx.invoked_with = <<>> \/ ~is_member
        THEN {Outcome("None", <<Entry("skip", "not a member")>>, NoError)}
    ELSE IF can_run # "True"
        THEN {Outcome("None", <<Entry("skip", "tag checks failed")>>, NoError)}
    ELSE IF lookup = "raise"
        THEN Raises(<<Entry("lookup", "raise")>>)
    ELSE IF tag
        THEN {Outcome("None", <<Entry("lookup", "tag")>> \o Send("tag"), NoError)}
    ELSE {Outcome("suggest", <<Entry("lookup", "no tag")>>, NoError)}

(***************************************************************************)
(* send_command_suggestion(ctx, command_name), lines 270-303.  The         *)
(* commands walk_commands yields, sub-commands among them: name, aliases, *)
(* hidden, and whether the command is a top-level one.  get_command looks  *)
(* a bare name up among the top-level commands only.                       *)
(***************************************************************************)
WalkCommands ==
    {[name |-> "silence", aliases |-> {"hush"}, hidden |-> FALSE, top |-> TRUE],
     [name |-> "eval", aliases |-> {"e"}, hidden |-> TRUE, top |-> TRUE],
     [name |-> "help", aliases |-> {}, hidden |-> FALSE, top |-> TRUE],
     [name |-> "get", aliases |-> {}, hidden |-> FALSE, top |-> FALSE],
     [name |-> "edit", aliases |-> {"e"}, hidden |-> FALSE, top |-> FALSE]}

\* lines 274-277
raw_commands ==
    UNION {{cmd.name} \cup cmd.aliases : cmd \in {c \in WalkCommands : ~c.hidden}}

\* line 278: difflib.get_close_matches(command_name, raw_commands, 1) is
\* empty or holds one of the candidates
get_close_matches == {{}} \cup {{c} : c \in raw_commands}

\* line 282: self.bot.get_command(similar_command_name)
get_command(name) ==
    {cmd \in WalkCommands : cmd.top /\ (cmd.name = name \/ name \in cmd.aliases)}

\* send_command_suggestion without the return of line 295
send_command_suggestion_no_return(ctx, similar_command_data, can_run, cmd_error, with_help) ==
    IF similar_command_data = {} THEN <<Entry("suggest", "no match")>>
    ELSE LET similar_command_name == CHOOSE c \in similar_command_data : TRUE
         IN IF get_command(similar_command_name) = {}
                THEN <<Entry("suggest", "no command")>>
            ELSE IF can_run = "False"
                THEN <<Entry("suggest", "checks failed")>>
            ELSE IF can_run = "CommandError"
                THEN <<Entry("suggest", "checks raised")>>
                         \o Handle(ctx, cmd_error, with_help)
                         \o Send("Did you mean")
            ELSE <<Entry("suggest", similar_command_name)>>
                     \o Send("Did you mean")

send_command_suggestion(ctx, similar_command_data, can_run, cmd_error, with_help) ==
    IF similar_command_data = {} THEN <<Entry("suggest", "no match")>>
    ELSE LET similar_command_name == CHOOSE c \in similar_command_data : TRUE
         IN IF get_command(similar_command_name) = {}
                THEN <<Entry("suggest", "no command")>>
            ELSE IF can_run = "False"
                THEN <<Entry("suggest", "checks failed")>>
            ELSE IF can_run = "CommandError"
                THEN <<Entry("suggest", "checks raised")>>
                         \o Handle(ctx, cmd_error, with_help)
            ELSE <<Entry("suggest", similar_command_name)>>
                     \o Send("Did you mean")

\* the except clause handing on the exception as it is
RehandledUnwrapped(err) == err

\* lines 115-120: the error the except clause hands to on_command_error
Rehandled(err) ==
    IF isinstance(err, "CommandError") THEN err ELSE CommandInvokeError(err)

(***************************************************************************)
(* on_command_error(ctx, e) as discord.py calls it for a command_error     *)
(* event, lines 66-144: up to its return, or up to its first fallback.     *)
(* tag: whether a tag has the name the command was invoked with.           *)
(* Each event is handled on its own: the handler keeps nothing from one    *)
(* event to the next, so a behaviour follows the handling of one event.    *)
(***************************************************************************)
Idle == handling.pos = "idle"

otherVars ==
    <<gateVars, resourceVars, loadVars, sync, proc, closing, last_event, regVars,
      utilVars>>

\* the fallback tried first (line 110) and the one tried after a fallback
\* that returned False (lines 112 and 114)
FirstFallback == "try_silence"

\* the order with the codeblock fallback tried last
NextFallbackTagFirst(fallback) ==
    CASE fallback = "try_silence" -> "try_get_tag"
      [] fallback = "try_get_tag" -> "try_run_fixed_codeblock"
      [] OTHER -> "done"

NextFallback(fallback) ==
    CASE fallback = "try_silence" -> "try_run_fixed_codeblock"
      [] fallback = "try_run_fixed_codeblock" -> "try_get_tag"
      [] OTHER -> "done"

on_command_error(ctx, e) ==
    /\ Idle
    /\ \E with_help \in BOOLEAN, tag \in BOOLEAN :
           handling' =
               IF ~LeftToLocalHandler(e) /\ EntersFallbacks(ctx, e)
                   THEN [pos |-> FirstFallback, event |-> "command_error",
                         tag |-> tag, ctx |-> Marked(ctx), ctx_given |-> ctx,
                         e |-> e, raised |-> NoError, trace |-> <<>>]
               ELSE [pos |-> "done", event |-> "command_error", tag |-> FALSE,
                     ctx |-> ctx, ctx_given |-> ctx, e |-> e, raised |-> NoError,
                     trace |-> Handle(ctx, e, with_help)]
    /\ UNCHANGED otherVars

\* the handler after a fallback ended with outcome o: it returns (line 111,
\* 113, or the end of the try), goes on to the next fallback or to the
\* suggestion, or enters the except clause (line 115)
After(fallback, o) ==
    [handling EXCEPT
         !.trace = @ \o <<Entry("try", fallback)>> \o o.trace,
         !.raised = o.raised,
         !.pos = CASE o.ret = "raise" -> "except"
                   [] o.ret = "False" -> NextFallback(fallback)
                   [] o.ret = "suggest" -> "send_command_suggestion"
                   [] OTHER -> "done"]

TrySilence ==
    /\ handling.pos = "try_silence"
    /\ \E registry \in Registries, can_run \in CanRun, args \in Args :
           \E o \in try_silence(handling.ctx, registry, can_run, args) :
               handling' = After("try_silence", o)
    /\ UNCHANGED otherVars

TryRunFixedCodeblock ==
    /\ handling.pos = "try_run_fixed_codeblock"
    /\ \E reparsed \in Reparsed :
           \E o \in try_run_fixed_codeblock(reparsed) :
               handling' = After("try_run_fixed_codeblock", o)
    /\ UNCHANGED otherVars

TryGetTag ==
    /\ handling.pos = "try_get_tag"
    /\ \E tags_cog \in BOOLEAN, is_member \in BOOLEAN, can_run \in CanRun,
          lookup \in Lookups :
           \E o \in try_get_tag(handling.ctx, handling.tag, tags_cog, is_member,
                                can_run, lookup) :
               handling' = After("try_get_tag", o)
    /\ UNCHANGED otherVars

SendCommandSuggestion ==
    /\ handling.pos = "send_command_suggestion"
    /\ \E similar_command_data \in get_close_matches, can_run \in CanRun :
       \E cmd_error \in IF can_run = "CommandError"
                            THEN {e \in Errors : ~e.handled} ELSE {NoError},
          with_help \in IF can_run = "CommandError" THEN BOOLEAN ELSE {FALSE} :
           handling' =
               [handling EXCEPT
                    !.trace = @ \o send_command_suggestion(
                                       handling.ctx, similar_command_data,
                                       can_run, cmd_error, with_help),
                    !.pos = "done"]
    /\ UNCHANGED otherVars

\* lines 115-120: the except clause calls on_command_error again, with the
\* same context, whose attribute is set
Except ==
    /\ handling.pos = "except"
    /\ \E with_help \in BOOLEAN :
           LET err == Rehandled(handling.raised)
           IN handling' =
                  [handling EXCEPT
                       !.trace = @ \o <<Entry("rehandle", err.cls)>>
                                   \o IF EntersFallbacks(handling.ctx, err)
                                          THEN <<Entry("try", FirstFallback)>>
                                      ELSE Handle(handling.ctx, err, with_help),
                       !.pos = "done"]
    /\ UNCHANGED otherVars

(***************************************************************************)
(* Bot.on_error(event, *args), bot.py 268-286, for the exception e_val     *)
(* raised in a listener.                                                   *)
(***************************************************************************)
on_error(event, e_val) ==
    /\ Idle
    /\ handling' =
           [pos |-> "done", event |-> event, tag |-> FALSE,
            ctx |-> NoHandling.ctx, ctx_given |-> NoHandling.ctx,
            e |-> [cls |-> e_val, original |-> NoOriginal, handled |-> FALSE],
            raised |-> NoError,
            trace |-> IF IsForbidden(e_val)
                          /\ handle_forbidden_from_block(e_val) = "handled"
                          THEN <<>>
                      ELSE Log("exception")]
    /\ UNCHANGED otherVars

CommandErrorEvent == \E ctx \in Contexts, e \in Errors : on_command_error(ctx, e)

ListenerError ==
    \E event \in {"on_message", "on_message_edit", "on_ready"},
       e_val \in Originals : on_error(event, e_val)

ErrorsNext ==
    \/ CommandErrorEvent
    \/ TrySilence
    \/ TryRunFixedCodeblock
    \/ TryGetTag
    \/ SendCommandSuggestion
    \/ Except
    \/ ListenerError

SpecErrors == Init /\ [][ErrorsNext]_vars

(***************************************************************************)
(* load_extensions as a caller may use it: with either value of            *)
(* sync_app_commands, and process_commands called on a bot whose           *)
(* load_extensions was never called (_extension_loading_task is None,      *)
(* bot.py 75).  last_event records the call of load_extensions.            *)
(***************************************************************************)
SetupEither ==
    /\ \E sync_app_commands \in BOOLEAN :
           /\ Setup(sync_app_commands)
           /\ last_event' = [kind |-> "load_extensions",
                             sync_app_commands |-> sync_app_commands]
    /\ UNCHANGED <<http_session, waiters, all_extensions, ext_task, extensions,
                   cogs, proc, closing, ever_set, regVars, errVars, utilVars>>

process_commands_no_task ==
    /\ proc.pos = "idle"
    /\ loader = "None"
    /\ IF DispatchMayStart(loader) THEN Dispatch
       ELSE proc' = [proc EXCEPT !.pos = "awaiting"]
    /\ UNCHANGED <<gateVars, resourceVars, loadVars, sync, closing, last_event,
                   regVars, errVars, utilVars>>

LoadNext ==
    \/ SetupEither
    \/ GuildAvailable
    \/ GuildUnavailable
    \/ _load_extensions
    \/ LoadExtension
    \/ LoadExtensionResume
    \/ _sync_app_commands
    \/ process_commands
    \/ process_commands_no_task
    \/ process_commands_done

SpecLoad == Init /\ [][LoadNext]_vars

(***************************************************************************)
(* app.start(), app.py 39-50.  asyncio.run(main()) runs the bot until an   *)
(* exception leaves main(); app.trace lists the calls of the except        *)
(* clause, in order.                                                       *)
(***************************************************************************)
\* exceptions that are instances of Exception, and BaseExceptions that are not
ExceptionClasses == {"LoginFailure", "OSError", "Exception"}

BaseExceptionClasses == ExceptionClasses \cup {"KeyboardInterrupt", "SystemExit"}

\* line 50: exit(69)
StartupErrorStatus == 69

\* an except clause that catches only the login failure
CaughtLoginFailureOnly(exc) == exc = "LoginFailure"

\* line 42: except Exception
Caught(exc) == exc \in ExceptionClasses

\* line 41: asyncio.run(main()) is entered
start ==
    /\ app.pos = "idle"
    /\ app' = [app EXCEPT !.pos = "main"]
    /\ UNCHANGED <<gateVars, resourceVars, loadVars, sync, proc, closing,
                   last_event, regVars, errVars, deletion>>

\* lines 42-50: exc leaves main(); the except clause logs it, logs the message
\* and exits.  An exception that is not caught leaves start().
main_raises(exc) ==
    /\ app.pos = "main"
    /\ app' = IF Caught(exc)
                  THEN [pos |-> "exited", exc |-> exc,
                        trace |-> <<[op |-> "log.fatal", what |-> exc],
                                    [op |-> "log.fatal",
                                     what |-> "Unknown Startup Error Occurred."],
                                    [op |-> "exit", what |-> "69"]>>,
                        exited |-> TRUE, exit_status |-> StartupErrorStatus]
              ELSE [app EXCEPT !.pos = "propagated", !.exc = exc]
    /\ UNCHANGED <<gateVars, resourceVars, loadVars, sync, proc, closing,
                   last_event, regVars, errVars, deletion>>

\* main() (lines 13-36) constructs the bot and runs it
MainRuns ==
    /\ app.pos = "main"
    /\ \/ setup_hook
       \/ GateAvailable
       \/ GateUnavailable
       \/ _load_extensions

MainRaises == \E exc \in BaseExceptionClasses : main_raises(exc)

AppNext ==
    \/ start
    \/ MainRuns
    \/ MainRaises

SpecApp == Init /\ [][AppNext]_vars

(***************************************************************************)
(* utils/messages.py: reaction_check (16-49) and wait_for_deletion         *)
(* (52-103).  deletion.calls lists the calls made on the message with how  *)
(* each ended; deletion.got is the reaction wait_for returned.             *)
(* deletion.missed is history: a reaction that reaction_check would have   *)
(* accepted arrived while the emojis were still being attached, when no    *)
(* wait_for was listening.                                                 *)
(***************************************************************************)
\* most deletion emojis of a call, and most reaction_add events during a call
MaxEmojis == 2
MaxReactions == 2

BotUser == "bot"

Users == {"bot", "author", "stranger"}

EmojiList == <<"trashcan", "x", "wastebasket", "eyes">>

MessageIds == {"message", "other"}

\* a reaction_add event: who reacted, with which emoji, on which message
Reactions == [user : Users, emoji : Range(EmojiList), message_id : MessageIds]

NoReaction == [user |-> "None", emoji |-> "None", message_id |-> "None"]

\* how a call of the Discord API on the message ends
HttpOutcomes == {"ok", "NotFound", "HTTPException"}

Call(op, what, result) == [op |-> op, what |-> what, result |-> result]

\* reaction_check without the check of the user, lines 37-39
reaction_check_any_user(reaction, user, message_id, allowed_emoji, allowed_users) ==
    LET right_reaction ==
            /\ user # BotUser
            /\ reaction.message_id = message_id
            /\ reaction.emoji \in Range(allowed_emoji)
    IN [ret |-> right_reaction, removed |-> FALSE]

\* lines 16-49: what the check returns, and whether it has the reaction removed
reaction_check(reaction, user, message_id, allowed_emoji, allowed_users) ==
    LET right_reaction ==
            /\ user # BotUser
            /\ reaction.message_id = message_id
            /\ reaction.emoji \in Range(allowed_emoji)
    IN IF ~right_reaction THEN [ret |-> FALSE, removed |-> FALSE]
       ELSE IF user \in allowed_users THEN [ret |-> TRUE, removed |-> FALSE]
       ELSE [ret |-> FALSE, removed |-> TRUE]

\* lines 96-103: the function after the call made on the message ended
Ended(d, op, result) ==
    [d EXCEPT !.calls = Append(@, Call(op, "message", result)),
              !.pos = IF result = "HTTPException" /\ ~d.thread THEN "raised"
                      ELSE "returned",
              !.raised = IF result = "HTTPException" /\ ~d.thread
                             THEN "HTTPException" ELSE "None"]

\* lines 52-69: the call up to its first await
wait_for_deletion(message, user_ids, deletion_emojis, attach_emojis) ==
    /\ deletion.pos = "idle"
    /\ deletion' =
           IF message.guild = "None"
               THEN [deletion EXCEPT !.pos = "raised", !.raised = "ValueError"]
           ELSE [deletion EXCEPT
                     !.pos = IF attach_emojis /\ deletion_emojis # <<>>
                                 THEN "attach" ELSE "wait",
                     !.guild = message.guild,
                     !.thread = message.thread,
                     !.user_ids = user_ids,
                     !.deletion_emojis = deletion_emojis,
                     !.todo = IF attach_emojis THEN deletion_emojis ELSE <<>>]
    /\ UNCHANGED <<gateVars, resourceVars, loadVars, sync, proc, closing,
                   last_event, regVars, errVars, app>>

\* lines 70-78: await message.add_reaction(emoji) ends
add_reaction(result) ==
    /\ deletion.pos = "attach"
    /\ LET emoji == Head(deletion.todo)
           called == [deletion EXCEPT
                          !.calls = Append(@, Call("add_reaction", emoji, result))]
       IN deletion' =
              CASE result = "NotFound" -> [called EXCEPT !.pos = "returned"]
                [] result = "HTTPException" ->
                       [called EXCEPT !.pos = "raised", !.raised = "HTTPException"]
                [] OTHER ->
                       [called EXCEPT
                            !.todo = Tail(@),
                            !.pos = IF Tail(deletion.todo) = <<>> THEN "wait"
                                    ELSE "attach"]
    /\ UNCHANGED <<gateVars, resourceVars, loadVars, sync, proc, closing,
                   last_event, regVars, errVars, app>>

\* a reaction_add event.  While wait_for listens (lines 88-91) the check is
\* run on it: a reaction it accepts ends the wait and message.delete() is
\* awaited (line 95), ending with result; before, nothing listens.
reaction_add(reaction, result) ==
    /\ deletion.pos \in {"attach", "wait"}
    /\ deletion.reactions < MaxReactions
    /\ LET check == reaction_check(reaction, reaction.user, "message",
                                   deletion.deletion_emojis, deletion.user_ids)
           counted == [deletion EXCEPT !.reactions = @ + 1]
       IN deletion' =
              IF deletion.pos = "attach"
                  THEN [counted EXCEPT !.missed = @ \/ check.ret]
              ELSE IF check.ret
                  THEN Ended([counted EXCEPT !.got = reaction], "delete", result)
              ELSE IF check.removed
                  THEN [counted EXCEPT
                            !.calls = Append(@, Call("remove_reaction",
                                                     reaction.user, "ok"))]
              ELSE counted
    /\ UNCHANGED <<gateVars, resourceVars, loadVars, sync, proc, closing,
                   last_event, regVars, errVars, app>>

\* lines 92-93: wait_for raises TimeoutError and message.clear_reactions() is
\* awaited, ending with result
timeout(result) ==
    /\ deletion.pos = "wait"
    /\ deletion' = Ended([deletion EXCEPT !.timed_out = TRUE],
                         "clear_reactions", result)
    /\ UNCHANGED <<gateVars, resourceVars, loadVars, sync, proc, closing,
                   last_event, regVars, errVars, app>>

\* the messages wait_for_deletion is called with: in a guild channel or
\* thread, or outside a guild
Messages ==
    {[guild |-> "guild", thread |-> FALSE], [guild |-> "guild", thread |-> TRUE],
     [guild |-> "None", thread |-> FALSE]}

WaitForDeletion ==
    \E message \in Messages, user_ids \in {{"author"}, {"author", "bot"}},
       k \in 0..MaxEmojis, attach_emojis \in BOOLEAN :
        wait_for_deletion(message, user_ids, SubSeq(EmojiList, 1, k),
                          attach_emojis)

AddReaction == \E result \in HttpOutcomes : add_reaction(result)

ReactionAdd ==
    \E reaction \in Reactions, result \in HttpOutcomes :
        reaction_add(reaction, result)

Timeout == \E result \in HttpOutcomes : timeout(result)

DeletionNext ==
    \/ WaitForDeletion
    \/ AddReaction
    \/ ReactionAdd
    \/ Timeout

SpecDeletion == Init /\ [][DeletionNext]_vars

(***************************************************************************)
(* Properties of the availability gate.                                    *)
(***************************************************************************)
Populated(guild) ==
    guild.roles = "nonempty" /\ guild.members = "nonempty"
        /\ guild.channels = "nonempty"

\* C1: a readiness signal goes from unset to set only in an on_guild_available
\* step whose guild is the guild of that signal (the private or the public one)
\* and whose role, member and channel caches are all non-empty; an available
\* event with one of the three caches empty leaves both signals unchanged.
C1_SetOnlyWithPopulatedCache ==
    [][/\ (guild_available # "set" /\ guild_available' = "set")
              => /\ last_event'.kind = "available"
                 /\ last_event'.guild.id = guild_id
                 /\ Populated(last_event'.guild)
       /\ (public_guild_available # "set" /\ public_guild_available' = "set")
              => /\ last_event'.kind = "available"
                 /\ last_event'.guild.id = public_guild_id
                 /\ Populated(last_event'.guild)
       /\ (/\ last_event' # last_event
           /\ last_event'.kind = "available"
           /\ ~Populated(last_event'.guild))
              => UNCHANGED <<guild_available, public_guild_available>>
      ]_vars

\* the private signal is set, and the last event reported the public guild
\* available with an empty role cache, which left the public signal unset
C1_Witness ==
    /\ guild_available = "set"
    /\ public_guild_available = "unset"
    /\ last_event.kind = "available"
    /\ last_event.guild.id = public_guild_id
    /\ last_event.guild.roles = "empty"
    /\ last_event.guild.members = "nonempty"
    /\ last_event.guild.channels = "nonempty"

RelevantSignals(key) ==
    CASE key = "" -> {"private", "public"}
      [] key = "private" -> {"private"}
      [] key = "public" -> {"public"}
      [] OTHER -> {}

\* C2: a call of wait_until_guild_available has returned only if each relevant
\* signal was set at some moment of the call: both signals with no key, the
\* private one with key "private", the public one with key "public"; a call
\* with key "private" never waits on the public signal, nor one with key
\* "public" on the private signal.
C2_ReturnsOnlyAfterSignalsSet ==
    \A w \in waiters :
        /\ w.pos = "returned" => RelevantSignals(w.key) \subseteq w.seen
        /\ w.key = "private" => w.pos \notin {"wait_public", "woken_public"}
        /\ w.key = "public" => w.pos \notin {"wait_private", "woken_private"}

\* a call without key has returned after waiting, and so has a call with key
\* "private" during which the public signal was never set
C2_Witness ==
    /\ \E w \in waiters : w.key = "" /\ w.pos = "returned"
    /\ \E w \in waiters :
           w.key = "private" /\ w.pos = "returned" /\ w.seen = {"private"}

\* C11: on_guild_unavailable for the private guild leaves the private signal
\* unset, and for the public guild the public signal; an available or an
\* unavailable event for a guild that is neither changes neither signal.
C11_UnavailableResets ==
    [][last_event' # last_event =>
           /\ (last_event'.kind = "unavailable" /\ last_event'.id = guild_id)
                  => guild_available' = "unset"
           /\ (last_event'.kind = "unavailable"
                   /\ last_event'.id = public_guild_id)
                  => public_guild_available' = "unset"
           /\ (last_event'.kind = "unavailable"
                   /\ last_event'.id \notin {guild_id, public_guild_id})
                  => UNCHANGED <<guild_available, public_guild_available>>
           /\ (last_event'.kind = "available"
                   /\ last_event'.guild.id \notin {guild_id, public_guild_id})
                  => UNCHANGED <<guild_available, public_guild_available>>
      ]_vars

\* the private guild, whose signal had been set, was reported unavailable: its
\* signal is unset while the public one is still set
C11_Witness ==
    /\ last_event.kind = "unavailable"
    /\ last_event.id = guild_id
    /\ "private" \in ever_set
    /\ guild_available = "unset"
    /\ public_guild_available = "set"

(***************************************************************************)
(* Properties of the startup sequence.                                     *)
(***************************************************************************)
\* C3: no extension is discovered (all_extensions assigned) or scheduled for
\* loading before the gate has opened: both signals have been set and the
\* loader's wait_until_guild_available() has returned.
C3_NoLoadBeforeGate ==
    (~all_extensions.is_none \/ \E e \in Exts : ext_task[e] # "none")
        => /\ {"private", "public"} \subseteq ever_set
           /\ loader = "done"

\* the extensions are discovered and scheduled, after the gate opened, while
\* the private guild has become unavailable again
C3_Witness ==
    /\ all_extensions.names = Exts
    /\ \A e \in Exts : ext_task[e] = "scheduled"
    /\ guild_available = "unset"

\* C4: a tree.sync call of _sync_app_commands is made only after all discovered
\* extensions have been loaded.
C4_SyncOnlyAfterAllLoaded ==
    sync.log # <<>> => sync.pending = {}

\* C5: when load_extensions has been called, process_commands dispatches a
\* message only after the discovered extensions have been loaded.
C5_DispatchOnlyAfterAllLoaded ==
    (proc.pos = "dispatched" /\ proc.loader_at_dispatch # "None")
        => proc.pending = {}

(***************************************************************************)
(* Properties of close().                                                  *)
(***************************************************************************)
\* the place of a call of close() in the order the claim states
Rank(entry) ==
    CASE entry[1] = "unload" -> 1
      [] entry[1] = "remove" -> 2
      [] entry[1] = "base" -> 3
      [] entry[1] = "http_session" -> 4
      [] entry[1] = "connector" -> 5
      [] entry[1] = "resolver" -> 6

Called(kind, what) ==
    \E i \in DOMAIN closing.log :
        closing.log[i][1] = kind /\ closing.log[i][2] = what

CalledResource(what) == \E i \in DOMAIN closing.log : closing.log[i] = <<what>>

\* everything close() has to close has been closed
AllClosed ==
    /\ \A i \in DOMAIN closing.ext_list : Called("unload", closing.ext_list[i])
    /\ \A i \in DOMAIN closing.cog_list : Called("remove", closing.cog_list[i])
    /\ CalledResource("base") /\ connection = "closed"
    /\ CalledResource("http_session") /\ http_session = "closed"
    /\ connector # "None" => CalledResource("connector") /\ connector = "closed"
    /\ resolver # "None" => CalledResource("resolver") /\ resolver = "closed"

\* C6: close() makes its calls in the order unload of the extensions, removal
\* of the cogs, base connection, HTTP session, connector, resolver, each
\* resource closed once, and when it ends it has unloaded every extension that
\* was loaded, removed every cog that was left, and closed the four resources.
C6_CloseOrder ==
    /\ \A i, j \in DOMAIN closing.log :
           i < j => /\ Rank(closing.log[i]) <= Rank(closing.log[j])
                    /\ Rank(closing.log[i]) >= 3
                           => Rank(closing.log[i]) < Rank(closing.log[j])
    /\ closing.pos # "idle" => closing.pos \in {"unload", "remove", "done"}
                                   \cup Range(CloseOrder)
    /\ closing.pos = "done" => AllClosed

\* close() has ended after unloading three extensions, removing a cog that an
\* unload had left behind and closing the four resources
C6_Witness ==
    /\ closing.pos = "done"
    /\ Len(closing.ext_list) = Cardinality(Exts)
    /\ Len(closing.cog_list) = 1
    /\ Len(closing.log) = Cardinality(Exts) + 5

\* some call of close() has raised
SomeRaised ==
    \E i \in DOMAIN closing.log :
        Len(closing.log[i]) = 3 /\ closing.log[i][3] = "raised"

\* C7: an exception raised by unload_extension or remove_cog does not leave
\* close(): the rest of the extensions and cogs are still attempted, and the
\* base connection, the HTTP session, the connector and the resolver are
\* still closed.
C7_FailuresSuppressed ==
    SomeRaised =>
        /\ closing.pos # "raised"
        /\ closing.pos = "done" => AllClosed
        /\ closing.pos \in Range(CloseOrder) \cup {"done"} =>
               /\ \A i \in DOMAIN closing.ext_list :
                      Called("unload", closing.ext_list[i])
               /\ \A i \in DOMAIN closing.cog_list :
                      Called("remove", closing.cog_list[i])

\* close() has ended although the first unload and the first removal raised
C7_Witness ==
    /\ closing.pos = "done"
    /\ Len(closing.ext_list) >= 2
    /\ closing.log[1][3] = "raised"
    /\ \E i \in DOMAIN closing.log :
           closing.log[i][1] = "remove" /\ closing.log[i][3] = "raised"
                /\ \E j \in DOMAIN closing.log : j > i /\ closing.log[j][1] = "remove"
    /\ connection = "closed" /\ http_session = "closed"
    /\ connector = "closed" /\ resolver = "closed"

(***************************************************************************)
(* Properties of the command registry.                                     *)
(***************************************************************************)
\* the root aliases a command and its sub-commands at every depth declare,
\* each with the command that declares it
RECURSIVE Declared(_)
Declared(command) ==
    {<<Command[command].root_aliases[i], command>> :
         i \in DOMAIN Command[command].root_aliases}
        \cup UNION {Declared(sc) : sc \in Command[command].commands}

\* the root aliases of the command itself that were names of the table
Colliding(command, tbl) == Range(Command[command].root_aliases) \cap DOMAIN tbl

\* after the call the command is registered under its own name, and the
\* colliding names map to the commands that held them before
BaseKeptAliasRefused ==
    /\ reg_call.error # ""
    /\ Command[reg_call.command].name \in DOMAIN all_commands
    /\ all_commands[Command[reg_call.command].name] = reg_call.command
    /\ \A a \in Colliding(reg_call.command, reg_call.before) :
           a \in DOMAIN all_commands /\ all_commands[a] = reg_call.before[a]

\* C8 as stated: add_command of a command with a root alias that is a name of
\* the table fails with CommandRegistrationError, and afterwards the command is
\* registered under its own name and the colliding name maps to the command
\* that held it before.
C8_AsStated ==
    (reg_call.op = "add" /\ Colliding(reg_call.command, reg_call.before) # {})
        => BaseKeptAliasRefused

\* C8: add_command of a command whose own name and aliases are not names of
\* the table, and that has a root alias that is a name of the table, fails with
\* CommandRegistrationError; afterwards the command is registered under its
\* own name and the colliding name maps to the command that held it before.
C8_BaseKeptAliasRefused ==
    (/\ reg_call.op = "add"
     /\ Colliding(reg_call.command, reg_call.before) # {}
     /\ Command[reg_call.command].name \notin DOMAIN reg_call.before
     /\ Range(Command[reg_call.command].aliases) \cap DOMAIN reg_call.before = {})
        => BaseKeptAliasRefused

\* halp, whose root alias help is taken, was refused: halp is registered and
\* help is still the help command
C8_Witness ==
    /\ reg_call.op = "add"
    /\ reg_call.command = "halp"
    /\ reg_call.error = "help"
    /\ "halp" \in DOMAIN all_commands /\ all_commands["halp"] = "halp"
    /\ all_commands["help"] = "help_command"
    /\ reg_call.before["help"] = "help_command"

\* C9: when add_command fails because a root alias collides with a name of the
\* table (the base registration went through), the call has inserted no root
\* alias of the command or of its sub-commands into the table.
C9_FailedAddInsertsNoRootAlias ==
    (/\ reg_call.op = "add"
     /\ reg_call.error # ""
     /\ Command[reg_call.command].name \notin DOMAIN reg_call.before
     /\ Command[reg_call.command].name \in DOMAIN all_commands)
        => \A d \in Declared(reg_call.command) :
               d[1] \in DOMAIN all_commands => d[1] \in DOMAIN reg_call.before

\* C10: after a successful add_command, every root alias declared by the
\* command and by its sub-commands at every depth is a key of the table and
\* maps to the command that declared it.
C10_RootAliasesRegistered ==
    (reg_call.op = "add" /\ reg_call.error = "")
        => \A d \in Declared(reg_call.command) :
               d[1] \in DOMAIN all_commands /\ all_commands[d[1]] = d[2]

\* the group tags was added: the root aliases of its sub-command get and of
\* get's sibling group's sub-command text are in the table
C10_Witness ==
    /\ reg_call.op = "add"
    /\ reg_call.command = "tags"
    /\ reg_call.error = ""
    /\ all_commands["tag"] = "tags_get"
    /\ all_commands["g"] = "tags_get"
    /\ all_commands["edittag"] = "tags_edit_text"

(***************************************************************************)
(* Properties of the error handler.                                        *)
(***************************************************************************)
IsTry(entry) == entry.op = "try"

IsSend(entry) == entry.op = "send"

\* the fallbacks tried so far, in order
Tried == SelectSeq(handling.trace, IsTry)

\* the messages sent to the invoking context so far, in order
Sent == SelectSeq(handling.trace, IsSend)

SentWhat(what) == Cardinality({i \in DOMAIN Sent : Sent[i].what = what})

Has(op, what) ==
    \E i \in DOMAIN handling.trace :
        handling.trace[i].op = op /\ handling.trace[i].what = what

HasOp(op) == \E i \in DOMAIN handling.trace : handling.trace[i].op = op

\* the handling of a CommandNotFound that went down the fallbacks is over
FallbacksDone ==
    /\ handling.pos = "done"
    /\ handling.event = "command_error"
    /\ HasOp("try")

IsShh(name, n) == lower(name) = <<"s", "h", "h">> \o Hs(n)

SilenceCalls ==
    {i \in DOMAIN handling.trace :
         handling.trace[i].op = "invoke" /\ handling.trace[i].what = "silence"}

\* C13 as stated: for the name "shh" followed by N h's, the duration passed to
\* the silence command is min(2N, 15).
C13_AsStated ==
    \A n \in 0..MaxH, i \in SilenceCalls :
        IsShh(handling.ctx.invoked_with, n)
            => handling.trace[i].n = min(2 * n, 15)

\* C13: for the name "shh" followed by N h's, the duration passed to the
\* silence command is twice the number of h's of the name, capped at 15:
\* min(2 * (N + 2), 15).
C13_DurationTwiceAllHs ==
    \A n \in 0..MaxH, i \in SilenceCalls :
        IsShh(handling.ctx.invoked_with, n)
            => handling.trace[i].n = min(2 * (n + 2), 15)

\* "shhhhhhhh", eight h's: the silence command was invoked with the cap, 15
C13_Witness ==
    \E i \in SilenceCalls :
        /\ IsShh(handling.ctx.invoked_with, 6)
        /\ handling.trace[i].n = 15
        /\ handling.pos = "done"

NoUnexpectedError == SentWhat("unexpected error") = 0 /\ ~HasOp("log.error")

NoFallbackMatch ==
    /\ FallbacksDone
    /\ Len(Tried) = 3
    /\ ~startswith(lower(handling.ctx.invoked_with), <<"s", "h", "h">>)
    /\ ~startswith(lower(handling.ctx.invoked_with), <<"u", "n", "s", "h", "h">>)
    /\ ~handling.tag
    /\ ~HasOp("rehandle")

\* C15 as stated: a command-not-found event that matches no fallback has
\* exactly one user-facing message sent, a suggestion or a generic error.
C15_AsStated ==
    NoFallbackMatch
        => /\ Len(Sent) = 1
           /\ Sent[1].what \in {"Did you mean", "unexpected error"}

\* C15: a command-not-found event that matches no fallback has at most one
\* user-facing message sent: a "Did you mean" suggestion exactly when the tag
\* lookup was reached and a close match was found that names a command whose
\* checks pass; the message of the error's category when those checks raised;
\* none when no close match was found.
C15_AtMostOneSuggestion ==
    NoFallbackMatch
        => /\ Len(Sent) <= 1
           /\ SentWhat("Did you mean") = 1
                  <=> \E c \in {"silence", "hush", "help", "e"} : Has("suggest", c)
           /\ (Len(Sent) = 1 /\ SentWhat("Did you mean") = 0)
                  => Has("suggest", "checks raised")
           /\ Has("suggest", "no match") => Len(Sent) = 0
           /\ ~Has("lookup", "no tag") => Len(Sent) = 0

\* no fallback matched, "hush" was the close match, and the suggestion was sent
C15_Witness ==
    /\ NoFallbackMatch
    /\ Has("lookup", "no tag")
    /\ Has("suggest", "hush")
    /\ Len(Sent) = 1 /\ Sent[1].what = "Did you mean"

\* the exceptions whose category has no message: a check failure that is
\* neither a missing bot permission or role nor NoPrivateMessage, a disabled
\* command, and a Forbidden caused by a block
Unanswered(err) ==
    \/ err.cls \in {"CheckFailure", "DisabledCommand", "Forbidden(90001)"}
    \/ err.cls = "CommandInvokeError" /\ err.original = "Forbidden(90001)"

Refed ==
    /\ handling.pos = "done"
    /\ HasOp("rehandle")
    /\ \A i \in DOMAIN handling.trace :
           handling.trace[i].op = "rehandle" =>
               /\ handling.trace[i].what =
                      IF handling.raised.cls \in Originals
                          THEN "CommandInvokeError" ELSE handling.raised.cls
               /\ handling.ctx.invoked_from_error_handler

ByCategory ==
    /\ handling.pos = "done"
    /\ handling.event = "command_error"
    /\ ~handling.e.handled
    /\ ~HasOp("try")

UserInputErrors ==
    {"MissingRequiredArgument", "TooManyArguments", "BadArgument",
     "BadUnionArgument", "ArgumentParsingError", "UserInputError"}

AnsweredCheckFailures ==
    {"BotMissingPermissions", "BotMissingRole", "BotMissingAnyRole",
     "NoPrivateMessage"}

Cooldowns == {"CommandOnCooldown", "MaxConcurrencyReached"}

ExcInfo(e) ==
    IF e.cls \in {"CommandInvokeError", "ConversionError"} THEN e.original
    ELSE e.cls

\* the errors no category answers: a CommandInvokeError unless its original
\* is the Forbidden of a block, a ConversionError, a plain command error, and
\* a CommandNotFound on a context that the handler had marked
IsUnexpected(ctx, e) ==
    \/ e.cls = "CommandInvokeError" /\ e.original # "Forbidden(90001)"
    \/ e.cls \in {"ConversionError", "CommandError"}
    \/ e.cls = "CommandNotFound" /\ ctx.invoked_from_error_handler

\* C18: an unexpected error has exactly one generic "unexpected error" message
\* sent and exactly one error-level log entry, which carries the exception.
C18_UnexpectedErrorOnce ==
    (ByCategory /\ IsUnexpected(handling.ctx, handling.e))
        => /\ Sent = Send("unexpected error")
           /\ Cardinality({i \in DOMAIN handling.trace :
                               handling.trace[i].op = "log.error"}) = 1
           /\ Has("log.error", ExcInfo(handling.e))

\* a ConversionError was answered with the generic message and logged with
\* the exception it wraps
C18_Witness ==
    /\ ByCategory
    /\ handling.e.cls = "ConversionError"
    /\ handling.e.original = "Exception"
    /\ handling.trace = Send("unexpected error") \o <<Entry("log.error", "Exception")>>

\* C19: a Forbidden that handle_forbidden_from_block recognises as a block is
\* suppressed: on_command_error sends no message and logs no error, and
\* Bot.on_error writes no unhandled-exception log; a Forbidden that the check
\* raises again is handled as an unexpected error by on_command_error and
\* logged as unhandled by Bot.on_error.
C19_BlockSuppressed ==
    /\ (ByCategory /\ handling.e.cls = "CommandInvokeError"
            /\ handling.e.original = "Forbidden(90001)")
           => handling.trace = <<>>
    /\ (ByCategory /\ handling.e.cls = "CommandInvokeError"
            /\ handling.e.original = "Forbidden(50013)")
           => /\ Sent = Send("unexpected error")
              /\ Has("log.error", "Forbidden(50013)")
    /\ (handling.pos = "done" /\ handling.event \notin {"none", "command_error"})
           => (Has("log", "exception") <=> handling.e.cls # "Forbidden(90001)")

\* a command failed with the Forbidden of a block: nothing was sent or logged
C19_Witness ==
    /\ ByCategory
    /\ handling.e.cls = "CommandInvokeError"
    /\ handling.e.original = "Forbidden(90001)"
    /\ handling.trace = <<>>

(***************************************************************************)
(* The gate never opening.                                                 *)
(***************************************************************************)
\* C20: as long as one of the two guilds has never been reported available
\* with a populated cache, the startup work behind the gate is blocked: no
\* extension is discovered, scheduled or loaded and no tree.sync call is made.
C20_BlockedUntilBothReported ==
    ~({"private", "public"} \subseteq ever_set)
        => /\ all_extensions.is_none
           /\ \A e \in Exts : ext_task[e] = "none"
           /\ extensions = <<>>
           /\ sync.log = <<>>
           /\ loader # "done"

\* the private guild was reported with its cache populated, the public one
\* never: the loader waits for the public signal, the sync task for the loader
C20_Witness ==
    /\ guild_available = "set"
    /\ "public" \notin ever_set
    /\ loader = "wait_public"
    /\ sync.pos = "await_load"
    /\ all_extensions.is_none

(***************************************************************************)
(* Errors left to a local handler, the allow-list of the codeblock         *)
(* fallback, the depth of the handler's recursion, and the silence         *)
(* shorthand when silence cannot be run.                                   *)
(***************************************************************************)
\* C22: a command error that carries a `handled` attribute is left to the
\* local handler: on_command_error sends no message, tries no fallback,
\* invokes nothing, and leaves invoked_from_error_handler on the context as
\* it was given.
C22_HandledLeftAlone ==
    (handling.event = "command_error" /\ handling.e.handled)
        => /\ handling.pos = "done"
           /\ Sent = <<>>
           /\ ~HasOp("try") /\ ~HasOp("invoke") /\ ~HasOp("suggest")
           /\ ~HasOp("rehandle")
           /\ handling.ctx = handling.ctx_given

\* a handled CommandNotFound on a context not yet marked: only the trace-level
\* log entry was made and the context is still not marked
C22_Witness ==
    /\ handling.event = "command_error"
    /\ handling.e.handled
    /\ handling.e.cls = "CommandNotFound"
    /\ ~handling.ctx_given.invoked_from_error_handler
    /\ ~handling.ctx.invoked_from_error_handler
    /\ handling.trace = Log("trace")

\* the index of the entry that opens the codeblock fallback, 0 if there is none
CodeblockAt ==
    LET at == {i \in DOMAIN handling.trace :
                   handling.trace[i] = Entry("try", "try_run_fixed_codeblock")}
    IN IF at = {} THEN 0 ELSE CHOOSE i \in at : TRUE

\* C23: the fixed-codeblock fallback invokes the re-parsed command only if it
\* is eval or timeit; for any other re-parsed command it invokes nothing and
\* returns False, so that the tag lookup is what follows.
C23_OnlyAllowListed ==
    LET t == handling.trace
        k == CodeblockAt
    IN k # 0 =>
           /\ \A j \in DOMAIN t :
                  (j > k /\ t[j].op = "invoke") => t[j].what \in {"eval", "timeit"}
           /\ \A j \in DOMAIN t :
                  (j > k /\ t[j].op = "reparsed") =>
                      /\ t[j].what \notin {"eval", "timeit"}
                      /\ j = k + 1
                      /\ \A i \in DOMAIN t : i > k => t[i].op # "invoke"
                      /\ handling.raised = NoError \/ Len(Tried) = 3
                      /\ IF Len(t) = j THEN handling.pos = "try_get_tag"
                         ELSE t[j + 1] = Entry("try", "try_get_tag")

\* the message re-parsed to the help command: nothing was invoked and the tag
\* lookup came next
C23_Witness ==
    /\ Has("reparsed", "help")
    /\ ~HasOp("invoke")
    /\ Len(Tried) = 3
    /\ Tried[3].what = "try_get_tag"

\* how far the handling of an event has come
PosRank(pos) ==
    CASE pos = "idle" -> 0
      [] pos = "try_silence" -> 1
      [] pos = "try_run_fixed_codeblock" -> 2
      [] pos = "try_get_tag" -> 3
      [] pos = "send_command_suggestion" -> 4
      [] pos = "except" -> 5
      [] OTHER -> 6

\* the calls of on_command_error made by the handler itself
NestedCalls ==
    {i \in DOMAIN handling.trace :
         \/ handling.trace[i].op = "rehandle"
         \/ handling.trace[i] = Entry("suggest", "checks raised")}

C24_Once ==
    /\ Cardinality({i \in DOMAIN handling.trace :
                        handling.trace[i] = Entry("try", FirstFallback)}) <= 1
    /\ (HasOp("try") \/ PosRank(handling.pos) \in 1..5)
           => handling.ctx.invoked_from_error_handler
    /\ (handling.pos = "done" /\ Has("rehandle", "CommandNotFound"))
           => /\ SentWhat("unexpected error") = 1
              /\ Has("log.error", "CommandNotFound")
    /\ Cardinality(NestedCalls) <= 1
    /\ PosRank(handling.pos) \in 1..5 => ENABLED ErrorsNext

\* C24: the handling of a command error ends, each step bringing it nearer to
\* its end, and enters the fallbacks at most once: the context is marked
\* before the first fallback, a CommandNotFound handed to on_command_error
\* again is answered as an unexpected error, and the handler calls
\* on_command_error at most once while handling an event.
C24_TerminatesEntersOnce ==
    /\ []C24_Once
    /\ [][PosRank(handling'.pos) > PosRank(handling.pos)]_handling

\* a fallback raised CommandNotFound: it was handed to on_command_error again
\* and answered as an unexpected error, the fallbacks not entered again
C24_Witness ==
    /\ handling.pos = "done"
    /\ Has("rehandle", "CommandNotFound")
    /\ Cardinality({i \in DOMAIN handling.trace :
                        handling.trace[i] = Entry("try", FirstFallback)}) = 1
    /\ SentWhat("unexpected error") = 1

SilenceSkips ==
    {"silence not registered", "silence checks failed", "silence checks raised"}

\* C25: when silence is not registered, or its checks fail or raise a
\* CommandError, try_silence invokes neither silence nor unsilence and returns
\* False: the fixed-codeblock fallback is what follows, no exception reaches
\* the except clause from try_silence.
C25_SilenceDegrades ==
    LET t == handling.trace
    IN \A i \in DOMAIN t :
           (t[i].op = "skip" /\ t[i].what \in SilenceSkips) =>
               /\ i = 2
               /\ t[1] = Entry("try", "try_silence")
               /\ \A j \in DOMAIN t :
                      t[j].op = "invoke" =>
                          t[j].what \notin {"silence", "unsilence", "None"}
               /\ IF Len(t) = 2
                      THEN /\ handling.pos = "try_run_fixed_codeblock"
                           /\ handling.raised = NoError
                  ELSE t[3] = Entry("try", "try_run_fixed_codeblock")

\* the checks of silence raised a CommandError for a name that starts with
\* shh: nothing was invoked and the codeblock fallback was tried next
C25_Witness ==
    /\ Has("skip", "silence checks raised")
    /\ startswith(lower(handling.ctx.invoked_with), <<"s", "h", "h">>)
    /\ Len(Tried) >= 2
    /\ Tried[2].what = "try_run_fixed_codeblock"
    /\ ~HasOp("invoke")

\* C26 as stated: a suggestion that is sent never names a hidden command: its
\* name is a name or alias of a non-hidden command, and it is the name of no
\* hidden command.
C26_AsStated ==
    \A c \in UNION {{cmd.name} \cup cmd.aliases : cmd \in WalkCommands} :
        (Has("suggest", c) /\ SentWhat("Did you mean") = 1)
            => /\ \E cmd \in WalkCommands :
                      ~cmd.hidden /\ (cmd.name = c \/ c \in cmd.aliases)
               /\ \A cmd \in WalkCommands :
                      (cmd.top /\ (cmd.name = c \/ c \in cmd.aliases))
                          => ~cmd.hidden

(***************************************************************************)
(* Startup failures, the sync task, command dispatch, wait_for_deletion    *)
(* and the gate at the moment a waiter returns.                            *)
(***************************************************************************)
\* C21: an Exception that leaves main() ends the process with exit status 69:
\* the except clause logs the exception, then the message, then exits, and
\* nothing is logged after the exit.
C21_StartupErrorExits ==
    app.exc \in {"LoginFailure", "OSError", "Exception"}
        => /\ app.pos = "exited"
           /\ app.exited
           /\ app.exit_status = 69
           /\ app.exit_status # 0
           /\ Len(app.trace) = 3
           /\ app.trace[1] = [op |-> "log.fatal", what |-> app.exc]
           /\ app.trace[2].op = "log.fatal"
           /\ app.trace[3].op = "exit"

\* the bot had run its setup_hook when an OSError left main(): it was logged
\* and the process exited with status 69
C21_Witness ==
    /\ app.exc = "OSError"
    /\ connection = "open"
    /\ app.exited
    /\ app.exit_status = 69
    /\ app.trace[1] = [op |-> "log.fatal", what |-> "OSError"]

IsPrefix(a, b) == Len(a) <= Len(b) /\ a = SubSeq(b, 1, Len(a))

\* C27: a call of load_extensions with sync_app_commands false makes no
\* tree.sync call; with true, the calls made are the global scope, the public
\* guild and the private guild, in this order, all three once the sync task is
\* done, and none is made before the extension-loading task has completed.
C27_ThreeSyncsInOrder ==
    LET scopes == <<"global", "public_guild", "private_guild">>
    IN /\ (last_event.kind = "load_extensions"
               /\ ~last_event.sync_app_commands)
              => (sync.pos = "None" /\ sync.log = <<>>)
       /\ (last_event.kind = "load_extensions"
               /\ last_event.sync_app_commands)
              => sync.pos # "None"
       /\ IsPrefix(sync.log, scopes)
       /\ sync.pos = "done" => sync.log = scopes
       /\ sync.log # <<>> => loader = "done"

\* the three syncs of a call with sync_app_commands true are made
C27_Witness ==
    /\ last_event.kind = "load_extensions"
    /\ last_event.sync_app_commands
    /\ sync.pos = "done"
    /\ sync.log = <<"global", "public_guild", "private_guild">>
    /\ loader = "done"

\* load_extensions was called with sync_app_commands false: the loading task
\* is done, its load_extension tasks are over, and no sync was made
C27_WitnessNoSync ==
    /\ last_event.kind = "load_extensions"
    /\ ~last_event.sync_app_commands
    /\ loader = "done"
    /\ sync.pos = "None"
    /\ sync.log = <<>>
    /\ \A e \in Exts : ext_task[e] \in {"done", "failed"}

C28_DispatchedAfterTask ==
    /\ proc.pos = "dispatched"
           => /\ proc.loader_at_dispatch \in {"None", "done"}
              /\ proc.loader_at_dispatch = "done" => loader = "done"
    /\ proc.pos \in {"awaiting", "woken"} => loader # "None"
    /\ proc.pos = "awaiting" => loader # "done"

\* C28: process_commands dispatches a message only when the extension-loading
\* task, if load_extensions created one, has completed: it waits while the
\* task runs, and with no loading task it dispatches in the step it is called.
C28_DispatchWaitsForTask ==
    /\ []C28_DispatchedAfterTask
    /\ [][(proc.pos = "idle" /\ loader = "None" /\ proc' # proc)
              => (proc'.pos = "dispatched"
                      /\ proc'.loader_at_dispatch = "None")]_vars
    /\ [][(proc'.pos = "dispatched" /\ proc.pos # "dispatched")
              => loader \in {"None", "done"}]_vars

\* a message waited for the loading task and was dispatched after it completed
C28_Witness ==
    /\ proc.pos = "dispatched"
    /\ proc.loader_at_dispatch = "done"
    /\ loader = "done"

\* a message was dispatched on a bot with no loading task
C28_WitnessNoTask ==
    /\ proc.pos = "dispatched"
    /\ proc.loader_at_dispatch = "None"

CallsOf(op) == {i \in DOMAIN deletion.calls : deletion.calls[i].op = op}

DeletionEnded == deletion.pos \in {"returned", "raised"}

AllCallsOk == \A i \in DOMAIN deletion.calls : deletion.calls[i].result = "ok"

\* C29 as stated: for a guild message, an allowed user adding one of the
\* deletion emojis during the call has the message deleted and its reactions
\* not cleared, and a call that ends otherwise has cleared the reactions and
\* not deleted the message.
C29_AsStated ==
    (DeletionEnded /\ deletion.guild # "None" /\ AllCallsOk)
        => /\ (deletion.missed \/ deletion.got # NoReaction)
                  => (CallsOf("delete") # {} /\ CallsOf("clear_reactions") = {})
           /\ deletion.timed_out
                  => (CallsOf("clear_reactions") # {} /\ CallsOf("delete") = {})

\* C29: a call for a guild message that reaches the wait ends in one of two
\* ways.  Either wait_for returns a reaction on the message, by an allowed
\* user other than the bot, with a deletion emoji: message.delete() is called
\* once and clear_reactions() is not.  Or the wait times out:
\* clear_reactions() is called once and delete() is not.  A reaction added
\* while the emojis are still being attached is not seen.  A call on the
\* message that ends with NotFound makes the function return without raising;
\* an HTTPException leaves the function unless it comes from the delete or the
\* clear on a thread.  A message outside a guild raises ValueError and no call
\* is made on it.
C29_DeletedOrCleared ==
    LET d == deletion
    IN /\ Cardinality(CallsOf("delete")) <= 1
       /\ Cardinality(CallsOf("clear_reactions")) <= 1
       /\ CallsOf("delete") = {} \/ CallsOf("clear_reactions") = {}
       /\ CallsOf("delete") # {} <=> d.got # NoReaction
       /\ CallsOf("clear_reactions") # {} <=> d.timed_out
       /\ d.got # NoReaction
              => /\ d.got.user \in d.user_ids
                 /\ d.got.user # "bot"
                 /\ d.got.emoji \in Range(d.deletion_emojis)
                 /\ d.got.message_id = "message"
       /\ (DeletionEnded /\ d.raised = "None" /\ d.guild # "None"
               /\ \A i \in DOMAIN d.calls : d.calls[i].result # "NotFound")
              => (d.got # NoReaction \/ d.timed_out)
       /\ (\E i \in DOMAIN d.calls : d.calls[i].result = "NotFound")
              => (d.pos = "returned" /\ d.raised = "None")
       /\ d.raised = "ValueError" <=> (d.pos # "idle" /\ d.guild = "None")
       /\ d.raised = "ValueError" => d.calls = <<>>
       /\ d.raised = "HTTPException"
              => \/ ~d.thread
                 \/ d.calls[Len(d.calls)].op = "add_reaction"

\* the stranger's reaction was removed, then the author's reaction with the
\* second deletion emoji ended the wait: the message was deleted, its
\* reactions were not cleared
C29_Witness ==
    /\ deletion.pos = "returned"
    /\ deletion.got = [user |-> "author", emoji |-> "x", message_id |-> "message"]
    /\ CallsOf("remove_reaction") # {}
    /\ CallsOf("add_reaction") # {}
    /\ CallsOf("clear_reactions") = {}
    /\ deletion.calls[Len(deletion.calls)] = Call("delete", "message", "ok")

\* the callers of wait_until_guild_available() with no key that return in this
\* step, the loading task among them
ReturnsNow ==
    \/ \E w \in waiters' \ waiters : w.key = "" /\ w.pos = "returned"
    \/ loader # "done" /\ loader' = "done"

\* C30 as stated: in the step in which wait_until_guild_available() with no
\* key returns, both readiness signals are set.
C30_BothSetAtReturn ==
    [][ReturnsNow => (guild_available' = "set" /\ public_guild_available' = "set")]_vars

(***************************************************************************)
(* close() against the loading tasks, the frame of remove_command, and     *)
(* the startup under fair scheduling.                                      *)
(***************************************************************************)
\* no call of unload_extension or remove_cog made by close() raised
NoCloseRaised ==
    \A i \in DOMAIN closing.log :
        Len(closing.log[i]) = 3 => closing.log[i][3] # "raised"

\* C31 as stated, for the calls of close() whose unloads all succeeded: once
\* close() has completed, no extension is loaded, whatever the loading task
\* and the load_extension tasks did meanwhile or do later.
C31_NoneLoadedAfterClose ==
    (closing.pos = "done" /\ NoCloseRaised) => extensions = <<>>

\* a command and its sub-commands at every depth
RECURSIVE Family(_)
Family(command) ==
    {command} \cup UNION {Family(sc) : sc \in Command[command].commands}

\* C32 as stated: remove_command of a command takes from the table only
\* entries that map to that command or to its sub-commands; every entry that
\* maps to another command is in the table afterwards, unchanged.
C32_RemoveKeepsOthers ==
    (reg_call.op = "remove" /\ reg_call.result # NoCommand)
        => \A k \in DOMAIN reg_call.before :
               reg_call.before[k] \notin Family(reg_call.result)
                   => (k \in DOMAIN all_commands
                          /\ all_commands[k] = reg_call.before[k])

\* the names under which a successful add_command registers a command
KeysOf(command) ==
    {Command[command].name} \cup Range(Command[command].aliases)
        \cup {d[1] : d \in Declared(command)}

\* C33: remove_command(c.name) called right after a successful add_command(c)
\* returns c and leaves the table with the content it had before the add,
\* none of c's name, aliases and root aliases (its sub-commands' included)
\* among its keys; remove_command of a name that is not in the table returns
\* None and leaves the table as it was.
C33_AddThenRemoveRestores ==
    reg_call.op = "remove" =>
        /\ reg_call.added.valid
               => /\ all_commands = reg_call.added.before
                  /\ reg_call.result # NoCommand
                  /\ Command[reg_call.result].name = reg_call.name
                  /\ KeysOf(reg_call.result) \cap DOMAIN all_commands = {}
        /\ reg_call.name \notin DOMAIN reg_call.before
               => /\ reg_call.result = NoCommand
                  /\ all_commands = reg_call.before

\* the group tags, added to a table that held help and ping, was removed: its
\* name, its alias and the root aliases of its sub-commands are gone, help and
\* ping are as before
C33_Witness ==
    /\ reg_call.op = "remove"
    /\ reg_call.name = "tags"
    /\ reg_call.added.valid
    /\ reg_call.result = "tags"
    /\ {"tag", "g", "edittag", "t", "tags"} \subseteq DOMAIN reg_call.before
    /\ DOMAIN all_commands = {"help", "ping", "p"}
    /\ all_commands = reg_call.added.before

\* both signals are set: each target guild was last reported available, with
\* a populated cache
BothAvailable ==
    guild_available = "set" /\ public_guild_available = "set"

\* every discovered extension has had its load_extension task created
AllScheduled ==
    /\ ~all_extensions.is_none
    /\ all_extensions.names = walk_extensions
    /\ \A e \in all_extensions.names : ext_task[e] # "none"

ThreeSyncs == sync.log = <<"global", public_guild_id, guild_id>>

\* a load_extension task is created only for an extension that had none
ScheduledOnce ==
    \A e \in Exts :
        /\ (ext_task'[e] = "scheduled" /\ ext_task[e] # "scheduled")
               => ext_task[e] = "none"
        /\ ext_task[e] # "none" => ext_task'[e] # "none"

\* C34: under fair scheduling, if from some moment on both signals stay set
\* (both target guilds reported available with populated caches and not
\* reported unavailable afterwards), the loading task eventually completes,
\* every discovered extension eventually has its load_extension task, created
\* once and never again, and the three tree.sync calls are eventually made,
\* global, public guild, private guild.
C34_StartupCompletes ==
    /\ <>[]BothAvailable
           => (<>(loader = "done") /\ <>AllScheduled /\ <>[]ThreeSyncs)
    /\ [][ScheduledOnce]_vars

\* the startup has completed with both guilds available: the loading task is
\* done, each extension's task was created and the three syncs were made
C34_Witness ==
    /\ BothAvailable
    /\ loader = "done"
    /\ AllScheduled
    /\ ThreeSyncs
    /\ sync.pos = "done"

====
